---- MODULE Spec2Model ----
(***************************************************************************)
(* Model of the audiobookshelf-asmr-provider metadata service: the TTL     *)
(* cache (internal/domain/cache/memory.go), the orchestration service      *)
(* (internal/service/metadata.go), the aggregating "all" provider and the  *)
(* provider registry.                                                      *)
(*                                                                         *)
(* Strings are sequences of one-character strings, so that the cache key   *)
(* p.ID() + ":" + query is a real concatenation.  Durations and instants   *)
(* are counted in hours.  A Go slice is a record [isNil, recs]: a nil      *)
(* slice and an empty non-nil slice hold the same (zero) records but are   *)
(* told apart by isNil.                                                    *)
(***************************************************************************)
EXTENDS Integers, Sequences, FiniteSets, TLC

VARIABLES
    entries,    \* MemoryCache.entries: key -> [data, expiry]
    now,        \* the wall clock read by time.Now()
    cret,       \* the last call a test made on the cache, when, and its return
    providers,  \* Service.providers
    allProviders, \* the providers field of the "all" provider: its children
    down,       \* the sources whose Search fails at present
    req,        \* the SearchByProviderID calls
    agg,        \* the invocations of the "all" provider's Search
    produced,   \* history: what each successful Search of the service returned
    mu,         \* MemoryCache.mu: the sync.RWMutex
    thr,        \* the goroutines inside Get, Put and EvictExpired, step by step
    dl          \* a call of dlsiteFetcher.Search, step by step

cacheVars == <<entries, now, cret>>

svcVars == <<providers, allProviders, down, req, agg, produced>>

lockVars == <<mu, thr>>

vars == <<entries, now, cret, providers, allProviders, down, req, agg, produced,
          mu, thr, dl>>

----------------------------------------------------------------------------
(* Bounds of the model *)

\* MemoryCache.maxSize (10000 in NewMemoryCache), scaled down
maxSize == 2
\* the clock runs from 0 to MaxTime hours
MaxTime == 1
\* the longest record list an upstream source returns
MaxRecs == 1
\* the number of SearchByProviderID calls
MaxReq == 2
\* the most children the "all" provider is built with
MaxChildren == 2
\* the longest run of digits in a query
MaxDigits == 9
\* the most rows a fetched listing holds in each of its layouts
MaxRows == 6
\* the most links the attribution container of a row holds
MaxLinks == 3
\* the number of goroutines that call the cache concurrently
MaxThreads == 4

----------------------------------------------------------------------------
(* Slices of records *)

NilSlice == [isNil |-> TRUE, recs |-> <<>>]

EmptySlice == [isNil |-> FALSE, recs |-> <<>>]

Slice(recs) == [isNil |-> FALSE, recs |-> recs]

\* one AbsBookMetadata, told apart by the source that produced it, the query
\* it answers and its position in the listing
Rec(src, q, n) == [src |-> src, q |-> q, n |-> n]

----------------------------------------------------------------------------
(* MemoryCache *)

cacheEntry(data, expiry) == [data |-> data, expiry |-> expiry]

\* m[key] = v on a Go map
MapSet(m, key, v) == [k \in DOMAIN m \cup {key} |-> IF k = key THEN v ELSE m[k]]

\* delete(m, key) on a Go map
MapDelete(m, key) == [k \in DOMAIN m \ {key} |-> m[k]]

\* time.Now().Add(ttl)
Expiry(t, ttl) == t + ttl

\* an off-by-one bound: an entry still served at the instant it expires
LiveLax(e, t) == t <= e.expiry

\* time.Now().Before(entry.expiry)
Live(e, t) == t < e.expiry

\* now.After(v.expiry)
Expired(e, t) == t > e.expiry

\* what Get returns: (entry.data, true) or (nil, false)
GetResult(m, key, t) ==
    IF key \in DOMAIN m /\ Live(m[key], t)
    THEN [data |-> m[key].data, found |-> TRUE]
    ELSE [data |-> NilSlice, found |-> FALSE]

\* a Put that never evicts
EvictNone(m) == {m}

\* a limit applied as soon as the map is full
EvictAtLimit(m) ==
    IF Cardinality(DOMAIN m) >= maxSize
    THEN {MapDelete(m, k) : k \in DOMAIN m}
    ELSE {m}

\* the size-limit protection of Put: one entry, whichever the map iteration
\* yields first, is deleted when the map has grown beyond maxSize
EvictOne(m) ==
    IF Cardinality(DOMAIN m) > maxSize
    THEN {MapDelete(m, k) : k \in DOMAIN m}
    ELSE {m}

\* the maps Put may leave behind
PutResults(m, key, data, ttl, t) ==
    EvictOne(MapSet(m, key, cacheEntry(data, Expiry(t, ttl))))

\* a sweep that deletes nothing
SweepNothing(m, t) == m

\* the map EvictExpired leaves behind
EvictExpiredResult(m, t) ==
    [k \in {x \in DOMAIN m : ~Expired(m[x], t)} |-> m[k]]

NoCall == [op |-> "none", key |-> <<>>, data |-> NilSlice, ttl |-> 0,
           at |-> 0, found |-> FALSE, len |-> 0]

\* c.Put(key, data, ttl); len is the len(c.entries) that Put compares
\* with maxSize
Put(key, data, ttl) ==
    /\ entries' \in PutResults(entries, key, data, ttl, now)
    /\ cret' = [NoCall EXCEPT !.op = "Put", !.key = key, !.data = data,
                              !.ttl = ttl, !.at = now,
                              !.len = Cardinality(DOMAIN entries \cup {key})]
    /\ UNCHANGED now
    /\ UNCHANGED <<lockVars, dl>>

\* c.Get(key)
Get(key) ==
    /\ LET r == GetResult(entries, key, now)
       IN  cret' = [NoCall EXCEPT !.op = "Get", !.key = key, !.data = r.data,
                                  !.found = r.found, !.at = now]
    /\ UNCHANGED <<entries, now>>
    /\ UNCHANGED <<lockVars, dl>>

\* c.EvictExpired()
EvictExpired ==
    /\ entries' = EvictExpiredResult(entries, now)
    /\ cret' = [NoCall EXCEPT !.op = "EvictExpired", !.at = now]
    /\ UNCHANGED now
    /\ UNCHANGED <<lockVars, dl>>

\* c.Len()
CacheLen ==
    /\ cret' = [NoCall EXCEPT !.op = "Len", !.len = Cardinality(DOMAIN entries),
                              !.at = now]
    /\ UNCHANGED <<entries, now>>
    /\ UNCHANGED <<lockVars, dl>>

\* the clock advances
ClockTick ==
    /\ now < MaxTime
    /\ now' = now + 1
    /\ UNCHANGED <<entries, cret>>
    /\ UNCHANGED <<lockVars, dl>>

----------------------------------------------------------------------------
(* Providers *)

\* time.Hour, the unit of the clock
Hour == 1

\* "dlsite", "all", "void": the ids of the registered providers
DlsiteID == <<"d", "l", "s", "i", "t", "e">>

AllID == <<"a", "l", "l">>

VoidID == <<"v", "o", "i", "d">>

\* the hours of dlsiteFetcher.CacheTTL and void.Provider.CacheTTL
DayHours == 24

DlsiteFetcher == [kind |-> "dlsite", id |-> DlsiteID, ttl |-> DayHours * Hour]

AllProvider == [kind |-> "all", id |-> AllID, ttl |-> 1 * Hour]

VoidProvider == [kind |-> "void", id |-> VoidID, ttl |-> DayHours * Hour]

\* &MockProvider{IDVal: id, MockCacheTTL: ttl} of the tests
MockProvider(id, ttl) == [kind |-> "mock", id |-> id, ttl |-> ttl]

\* the nil Provider
NoProvider == [kind |-> "none", id |-> <<>>, ttl |-> 0]

\* p.ID()
ID(p) == p.id

\* p.CacheTTL()
CacheTTL(p) == p.ttl

\* provider.NewAll(): dlsite, the aggregator over dlsite, void
NewAll == <<DlsiteFetcher, AllProvider, VoidProvider>>

NewAllChildren == <<DlsiteFetcher>>

\* the registry of TestService_SearchByProviderID: p1 reports a zero TTL
TestProviders == <<MockProvider(<<"p", "1">>, 0)>>

\* the children of TestAllProvider_Search, and one more
TestChildren ==
    <<MockProvider(<<"p", "1">>, Hour), MockProvider(<<"p", "2">>, Hour),
      MockProvider(<<"f", "a", "i", "l">>, Hour), MockProvider(<<"p", "4">>, Hour)>>

NoErr == "nil"

\* the errors of fetchPage: a status other than 200, a transport failure
UpstreamErrors == {"dlsite returned status: 404", "connection refused"}

\* the error of a request whose context is done
ErrCanceled == "context canceled"

RECURSIVE Listing(_, _, _)
\* the first n records a source holds for a query
Listing(src, q, n) == IF n = 0 THEN <<>> ELSE Append(Listing(src, q, n - 1), Rec(src, q, n))

\* what a mock may hold in SearchResults: nil, or up to MaxRecs records
Listings(src, q) == {NilSlice} \cup {Slice(Listing(src, q, n)) : n \in 1..MaxRecs}

\* what dlsiteFetcher.Search returns when its fetches succeed: the one
\* record of a work page, or the nil results of a listing without candidates
DlsiteListings(q) == {NilSlice, Slice(Listing(DlsiteID, q, 1))}

Failed(e) == [data |-> NilSlice, err |-> e]

Found(d) == [data |-> d, err |-> NoErr]

\* the records of the mocks carry no provider name: two mocks may return
\* equal records
MockTitle == <<"m">>

\* what pr.Search(ctx, query) may return: a mock returns its SearchResults
\* and SearchErr fields whatever the context, dlsite (nil, err) on a failed
\* fetch, void an empty list
SearchOutcomes(pr, q, cancelled) ==
    CASE pr.kind = "void" -> {Found(EmptySlice)}
      [] pr.kind = "dlsite" ->
            IF cancelled THEN {Failed(ErrCanceled)}
            ELSE IF ID(pr) \in down THEN {Failed(e) : e \in UpstreamErrors}
            ELSE {Found(d) : d \in DlsiteListings(q)}
      [] pr.kind = "mock" ->
            IF ID(pr) \in down
            THEN {[data |-> d, err |-> e] : d \in Listings(MockTitle, q),
                                           e \in UpstreamErrors}
            ELSE {Found(d) : d \in Listings(MockTitle, q)}

----------------------------------------------------------------------------
(* dlsite: RJCode *)

\* the characters unicode.IsSpace accepts, among those of the queries
Whitespace == {" ", "\t", "\n"}

\* \d of the regular expression: the ASCII digits
DigitChars == {"0", "1", "2", "3", "4", "5", "6", "7", "8", "9"}

\* unicode.ToUpper on the characters of the queries
UpperChar(c) ==
    CASE c = "r" -> "R" [] c = "j" -> "J" [] c = "x" -> "X" [] c = "a" -> "A"
      [] c = "h" -> "H" [] c = "t" -> "T" [] c = "m" -> "M" [] c = "l" -> "L"
      [] OTHER -> c

\* strings.ToUpper
ToUpper(s) == [i \in 1..Len(s) |-> UpperChar(s[i])]

RECURSIVE TrimLeft(_)
\* strings.TrimLeftFunc(s, unicode.IsSpace)
TrimLeft(s) == IF s # <<>> /\ Head(s) \in Whitespace THEN TrimLeft(Tail(s)) ELSE s

RECURSIVE TrimRight(_)
\* strings.TrimRightFunc(s, unicode.IsSpace)
TrimRight(s) ==
    IF s # <<>> /\ s[Len(s)] \in Whitespace THEN TrimRight(SubSeq(s, 1, Len(s) - 1))
    ELSE s

\* strings.TrimSpace
TrimSpace(s) == TrimRight(TrimLeft(s))

\* the expression without its anchors, as the listing extractor has it: a
\* match anywhere in the text
MatchAnywhere(s) ==
    \E i \in 1..Len(s) : \E n \in 6..8 :
        /\ i + 1 + n <= Len(s)
        /\ s[i] \in {"R", "r"} /\ s[i + 1] \in {"J", "j"}
        /\ \A k \in (i + 2)..(i + 1 + n) : s[k] \in DigitChars

\* rjCodeRegex.MatchString: (?i)^RJ\d{6,8}$ against the whole text
MatchString(s) ==
    /\ Len(s) >= 2
    /\ s[1] \in {"R", "r"} /\ s[2] \in {"J", "j"}
    /\ (Len(s) - 2) \in 6..8
    /\ \A k \in 3..Len(s) : s[k] \in DigitChars

ErrInvalidRJ == "invalid RJ code format"

\* NewRJCode(code): (RJCode{value}, nil) or (RJCode{}, error)
NewRJCode(code) ==
    LET c == ToUpper(TrimSpace(code))
    IN  IF ~MatchString(c) THEN [value |-> <<>>, err |-> ErrInvalidRJ]
        ELSE [value |-> c, err |-> NoErr]

\* RJCode.String()
RJString(rj) == rj.value

----------------------------------------------------------------------------
(* dlsite: dlsiteFetcher.Search, fetch by fetch *)

\* AbsBookMetadata: the fields of a record the adapter fills in
AbsBookMetadata(title, author, narrator, isbn, publisher) ==
    [Title |-> title, Author |-> author, Narrator |-> narrator, ISBN |-> isbn,
     Publisher |-> publisher]

\* the publisher written into every record taken from a listing
DLsiteName == <<"D", "L", "s", "i", "t", "e">>

\* searchKeywords: the number of candidates at which a scan stops
MaxResults == 5

\* fetchPage: the one status that is not an error
StatusOK == 200

\* an http response: the error of client.Do, the status and the document
HTTPResponse(transport, status, body) ==
    [transport |-> transport, status |-> status, body |-> body]

\* no document
NoBody == [kind |-> "none"]

\* fmt.Errorf("dlsite returned status: %d", resp.StatusCode)
StatusError(status) ==
    CASE status = 404 -> "dlsite returned status: 404"
      [] status = 203 -> "dlsite returned status: 203"
      [] OTHER -> "dlsite returned status: other"

\* fetchPage: the error of the transport, the error of a status other than
\* 200, or the document of the body
fetchPage(rsp) ==
    IF rsp.transport # NoErr THEN [doc |-> NoBody, err |-> rsp.transport]
    ELSE IF rsp.status # StatusOK THEN [doc |-> NoBody, err |-> StatusError(rsp.status)]
    ELSE [doc |-> rsp.body, err |-> NoErr]

\* a work page: the text of #work_name, of span.maker_name a and of the
\* scenario row of #work_outline, each empty when the element is missing
WorkPage(title, circle, scenario) ==
    [kind |-> "work", title |-> title, circle |-> circle, scenario |-> scenario]

extractTitle(doc) == TrimSpace(doc.title)

extractCircle(doc) == TrimSpace(doc.circle)

\* extractTableData, the scenario row
extractScenario(doc) == TrimSpace(doc.scenario)

\* AsmrWork{}
NoWork == [RJCode |-> [value |-> <<>>, err |-> NoErr], Title |-> <<>>,
           Circle |-> <<>>, Scenario |-> <<>>]

\* getWorkByID: the error of fetchPage, or the work read from the page
getWorkByID(code, rsp) ==
    LET p == fetchPage(rsp)
    IN  IF p.err # NoErr THEN [work |-> NoWork, err |-> p.err]
        ELSE [work |-> [RJCode |-> code, Title |-> extractTitle(p.doc),
                        Circle |-> extractCircle(p.doc),
                        Scenario |-> extractScenario(p.doc)],
              err |-> NoErr]

\* toAbsMetadata: the author is the scenario, or the circle when there is no
\* scenario; the publisher is the circle; the pages list no voice actor
toAbsMetadata(work) ==
    AbsBookMetadata(work.Title,
                    IF work.Scenario = <<>> THEN work.Circle ELSE work.Scenario,
                    <<>>, RJString(work.RJCode), work.Circle)

\* extractor.FindString(s) for (?i)RJ\d{6,8}: the leftmost match, with as
\* many digits as there are up to eight
FindString(s) ==
    LET starts == {i \in 1..Len(s) :
                      /\ i + 7 <= Len(s)
                      /\ s[i] \in {"R", "r"} /\ s[i + 1] \in {"J", "j"}
                      /\ \A k \in (i + 2)..(i + 7) : s[k] \in DigitChars}
    IN  IF starts = {} THEN <<>>
        ELSE LET i == CHOOSE x \in starts : \A y \in starts : x <= y
                 n == CHOOSE m \in 6..8 :
                         /\ i + 1 + m <= Len(s)
                         /\ \A k \in (i + 2)..(i + 1 + m) : s[k] \in DigitChars
                         /\ (m = 8 \/ i + 2 + m > Len(s) \/ s[i + 2 + m] \notin DigitChars)
             IN  SubSeq(s, i, i + 1 + n)

RECURSIVE Split(_)
\* strings.Split(s, "/")
Split(s) ==
    IF \A i \in 1..Len(s) : s[i] # "/" THEN <<s>>
    ELSE LET i == CHOOSE x \in 1..Len(s) : s[x] = "/" /\ \A y \in 1..(x - 1) : s[y] # "/"
         IN  <<SubSeq(s, 1, i - 1)>> \o Split(SubSeq(s, i + 1, Len(s)))

HasPrefix(s, p) == Len(s) >= Len(p) /\ SubSeq(s, 1, Len(p)) = p

HasSuffix(s, p) == Len(s) >= Len(p) /\ SubSeq(s, Len(s) - Len(p) + 1, Len(s)) = p

TrimSuffix(s, p) == IF HasSuffix(s, p) THEN SubSeq(s, 1, Len(s) - Len(p)) ELSE s

DotHtml == <<".", "h", "t", "m", "l">>

RECURSIVE Text(_)
\* Selection.Text(): the texts of the selected elements, one after another
Text(links) == IF links = <<>> THEN <<>> ELSE Head(links).text \o Text(Tail(links))

\* a link of the .maker_name element of a row: its text, and whether it lies
\* inside the .author element
Link(text, author) == [text |-> text, author |-> author]

InAuthor(l) == l.author

\* extractMakerAndNarrator: the narrator is the text of the links of .author;
\* the maker is the text of the first link whose text is neither the
\* narrator nor empty
extractMakerAndNarrator(maker) ==
    LET narratorElem == SelectSeq(maker, InAuthor)
        narrator == IF Len(narratorElem) > 0 THEN TrimSpace(Text(narratorElem)) ELSE <<>>
        Named(l) == TrimSpace(l.text) # narrator /\ TrimSpace(l.text) # <<>>
        named == SelectSeq(maker, Named)
    IN  [maker |-> IF named = <<>> THEN <<>> ELSE TrimSpace(named[1].text),
         narrator |-> narrator]

\* a row of a listing, of either layout: the text and the href of
\* .work_name a, and the links of .maker_name
Row(title, link, maker) == [title |-> title, link |-> link, maker |-> maker]

\* service.AbsBookMetadata{}, false
NoCandidate == [ok |-> FALSE, meta |-> AbsBookMetadata(<<>>, <<>>, <<>>, <<>>, <<>>)]

Candidate(row, rjCode) ==
    LET mn == extractMakerAndNarrator(row.maker)
    IN  [ok |-> TRUE,
         meta |-> AbsBookMetadata(TrimSpace(row.title), mn.maker, mn.narrator,
                                  rjCode, DLsiteName)]

\* extractFromTable: no candidate without a title or without a code in the link
extractFromTable(row) ==
    LET rjCode == FindString(row.link)
    IN  IF TrimSpace(row.title) = <<>> \/ rjCode = <<>> THEN NoCandidate
        ELSE Candidate(row, rjCode)

\* extractFromGrid: where the link holds no code, the first part of its path
\* that starts with RJ, without its ".html"
extractFromGrid(row) ==
    LET found == FindString(row.link)
        parts == Split(row.link)
        rjParts == SelectSeq(parts, LAMBDA p : HasPrefix(ToUpper(p), <<"R", "J">>))
        rjCode == IF found # <<>> THEN found
                  ELSE IF rjParts = <<>> THEN <<>>
                  ELSE TrimSuffix(rjParts[1], DotHtml)
    IN  IF TrimSpace(row.title) = <<>> \/ rjCode = <<>> THEN NoCandidate
        ELSE Candidate(row, rjCode)

Extract(row, layout) ==
    IF layout = "table" THEN extractFromTable(row) ELSE extractFromGrid(row)

RECURSIVE EachWithoutBreak(_, _, _)
\* a scan of the first n rows that takes every candidate
EachWithoutBreak(rows, layout, n) ==
    IF n = 0 THEN <<>>
    ELSE LET before == EachWithoutBreak(rows, layout, n - 1)
             x == Extract(rows[n], layout)
         IN  IF x.ok THEN Append(before, [meta |-> x.meta, layout |-> layout, row |-> n])
             ELSE before

RECURSIVE EachWithBreak(_, _, _)
\* searchKeywords: the scan of the first n rows of a layout; it stops at the
\* row that finds MaxResults candidates taken; each candidate with the
\* layout and the row it was taken from
EachWithBreak(rows, layout, n) ==
    IF n = 0 THEN <<>>
    ELSE LET before == EachWithBreak(rows, layout, n - 1)
             x == Extract(rows[n], layout)
         IN  IF Len(before) >= MaxResults THEN before
             ELSE IF x.ok
                  THEN Append(before, [meta |-> x.meta, layout |-> layout, row |-> n])
             ELSE before

\* a listing page: the rows of #search_result_list and the items of
\* .n_worklist
ListingPage(table, grid) == [kind |-> "listing", table |-> table, grid |-> grid]

\* a scan of both layouts, one after the other
CandidatesBothLayouts(doc) ==
    EachWithBreak(doc.table, "table", Len(doc.table))
        \o EachWithBreak(doc.grid, "grid", Len(doc.grid))

\* searchKeywords: the candidates of the table, and those of the grid when
\* the table gave none
Candidates(doc) ==
    LET results == EachWithBreak(doc.table, "table", Len(doc.table))
    IN  IF Len(results) = 0 THEN EachWithBreak(doc.grid, "grid", Len(doc.grid))
        ELSE results

\* a call not yet made
NoDl == [pc |-> "idle", query |-> <<>>, rj |-> [value |-> <<>>, err |-> NoErr],
         fetches |-> <<>>, doc |-> NoBody, cands |-> <<>>, results |-> <<>>,
         next |-> 0, ret |-> [data |-> NilSlice, err |-> NoErr]]

\* one request made by fetchPage: the page, what it was asked for, on whose
\* behalf (the query itself or a candidate of the listing), the response and
\* how fetchPage ended
Fetched(page, arg, origin, rsp) ==
    [page |-> page, arg |-> arg, origin |-> origin, rsp |-> rsp,
     err |-> fetchPage(rsp).err]

\* a Search that goes to the keyword search whatever the query
AfterParseKeywordOnly(d, q) ==
    [d EXCEPT !.query = q, !.rj = NewRJCode(q), !.pc = "keywords"]

\* Search, after NewRJCode(query): the single-item lookup when the
\* query parses, the keyword search otherwise
AfterParse(d, q) ==
    LET rj == NewRJCode(q)
    IN  [d EXCEPT !.query = q, !.rj = rj,
                  !.pc = IF rj.err = NoErr THEN "work" ELSE "keywords"]

\* Search: work, err := f.getWorkByID(ctx, rj); an error is returned, a work
\* becomes the one record of the result
AfterGetWork(d, rsp) ==
    LET w == getWorkByID(d.rj, rsp)
    IN  [d EXCEPT !.fetches = Append(@, Fetched("work", RJString(d.rj), "query", rsp)),
                  !.pc = "done",
                  !.ret = IF w.err # NoErr THEN Failed(w.err)
                          ELSE Found(Slice(<<toAbsMetadata(w.work)>>))]

\* searchKeywords: doc, err := f.fetchPage(ctx, searchURL); an error is
\* returned, otherwise the candidates of the listing are extracted
AfterListing(d, rsp) ==
    LET p == fetchPage(rsp)
        cands == IF p.err # NoErr THEN <<>> ELSE Candidates(p.doc)
    IN  [d EXCEPT !.fetches = Append(@, Fetched("listing", d.query, "query", rsp)),
                  !.pc = IF p.err # NoErr THEN "done" ELSE "enrich",
                  !.doc = p.doc,
                  !.cands = cands,
                  !.results = [i \in 1..Len(cands) |-> cands[i].meta],
                  !.next = 1,
                  !.ret = IF p.err # NoErr THEN Failed(p.err) ELSE d.ret]

\* one round of the loop over results in which a failed fetch removes the
\* candidate's record
AfterEnrichDropFailed(d, rsp) ==
    LET i == d.next
        rj == NewRJCode(d.results[i].ISBN)
        w == getWorkByID(rj, rsp)
    IN  IF d.results[i].ISBN = <<>> \/ rj.err # NoErr
        THEN [d EXCEPT !.next = i + 1]
        ELSE IF w.err = NoErr
        THEN [d EXCEPT !.next = i + 1,
                       !.fetches = Append(@, Fetched("work", RJString(rj), "candidate", rsp)),
                       !.results[i] = toAbsMetadata(w.work)]
        ELSE [d EXCEPT !.fetches = Append(@, Fetched("work", RJString(rj), "candidate", rsp)),
                       !.cands = SubSeq(@, 1, i - 1) \o SubSeq(@, i + 1, Len(@)),
                       !.results = SubSeq(@, 1, i - 1) \o SubSeq(@, i + 1, Len(@))]

\* searchKeywords: one round of the loop over results; a candidate whose
\* ISBN is empty or does not parse is skipped, a fetched work replaces the
\* partial record, a failed fetch leaves it
AfterEnrich(d, rsp) ==
    LET i == d.next
        rj == NewRJCode(d.results[i].ISBN)
        w == getWorkByID(rj, rsp)
    IN  IF d.results[i].ISBN = <<>> \/ rj.err # NoErr
        THEN [d EXCEPT !.next = i + 1]
        ELSE [d EXCEPT !.next = i + 1,
                       !.fetches = Append(@, Fetched("work", RJString(rj), "candidate", rsp)),
                       !.results[i] = IF w.err = NoErr THEN toAbsMetadata(w.work) ELSE @]

\* searchKeywords: return results, nil; results is nil when nothing was
\* appended to it
AfterKeywords(d) ==
    [d EXCEPT !.pc = "done",
              !.ret = Found(IF d.results = <<>> THEN NilSlice ELSE Slice(d.results))]

\* f.Search(ctx, query) up to the branch
DlSearch(q) ==
    /\ dl.pc = "idle"
    /\ dl' = AfterParse(dl, q)
    /\ UNCHANGED <<cacheVars, svcVars, lockVars>>

\* the single-item lookup and the return of Search
DlGetWorkByID(rsp) ==
    /\ dl.pc = "work"
    /\ dl' = AfterGetWork(dl, rsp)
    /\ UNCHANGED <<cacheVars, svcVars, lockVars>>

\* the fetch of the listing page and the scan of its rows
DlFetchListing(rsp) ==
    /\ dl.pc = "keywords"
    /\ dl' = AfterListing(dl, rsp)
    /\ UNCHANGED <<cacheVars, svcVars, lockVars>>

\* one round of the enrichment loop
DlEnrich(rsp) ==
    /\ dl.pc = "enrich"
    /\ dl.next <= Len(dl.results)
    /\ dl' = AfterEnrich(dl, rsp)
    /\ UNCHANGED <<cacheVars, svcVars, lockVars>>

\* the return of searchKeywords and of Search
DlReturn ==
    /\ dl.pc = "enrich"
    /\ dl.next > Len(dl.results)
    /\ dl' = AfterKeywords(dl)
    /\ UNCHANGED <<cacheVars, svcVars, lockVars>>

----------------------------------------------------------------------------
(* all.Provider.Search *)

\* append(a, b...)
AppendSlice(a, b) == IF Len(b.recs) = 0 THEN a ELSE Slice(a.recs \o b.recs)

NoAgg == [pc |-> "idle", query |-> <<>>, child |-> <<>>, asked |-> <<>>,
          got |-> <<>>, out |-> <<>>, allMatches |-> NilSlice,
          ret |-> Failed(NoErr), peak |-> 0]

\* (peak is the largest number of children that were inside Search at once)

\* no call made on a child yet
NotAsked == [n |-> 0, query |-> <<>>, ctx |-> 0]

\* the loop over p.providers: one goroutine per child, wg.Add(1) each
Spawn(q) ==
    [NoAgg EXCEPT !.pc = "running", !.query = q,
                  !.child = [i \in 1..Len(allProviders) |-> "run"],
                  !.asked = [i \in 1..Len(allProviders) |-> NotAsked],
                  !.got = [i \in 1..Len(allProviders) |-> NilSlice],
                  !.out = [i \in 1..Len(allProviders) |-> Failed(NoErr)]]

\* a child goroutine that appends whatever pr.Search returned
AfterSearchNoCheck(a, i, o) ==
    [a EXCEPT !.out[i] = o, !.got[i] = o.data, !.child[i] = "got"]

\* a child goroutine after pr.Search returned: done on an error, otherwise
\* it goes on to append its matches
AfterSearch(a, i, o) ==
    [a EXCEPT !.out[i] = o,
              !.got[i] = o.data,
              !.child[i] = IF o.err # NoErr THEN "done" ELSE "got"]

\* mu.Lock(); allMatches = append(allMatches, matches...); mu.Unlock()
AfterAppend(a, i) ==
    [a EXCEPT !.allMatches = AppendSlice(a.allMatches, a.got[i]),
              !.child[i] = "done"]

\* a wait that ends with the first child that is done
JoinedFirst(a) == \E i \in 1..Len(a.child) : a.child[i] = "done"

\* wg.Wait() returns once every child has called wg.Done()
Joined(a) == \A i \in 1..Len(a.child) : a.child[i] = "done"

\* return allMatches, nil
AllResult(a) == Found(a.allMatches)

\* goroutine i calls pr.Search(ctx, query) with the context c and the query
\* of the aggregator's own call
AfterCall(a, i, c) ==
    LET inside == 1 + Cardinality({j \in 1..Len(a.child) : a.child[j] = "searching"})
    IN  [a EXCEPT !.child[i] = "searching",
                  !.asked[i] = [n |-> @.n + 1, query |-> a.query, ctx |-> c],
                  !.peak = IF inside > @ THEN inside ELSE @]

\* goroutine i of invocation r: the call of pr.Search(ctx, query)
ChildCallStep(r, i) ==
    /\ agg[r].pc = "running"
    /\ agg[r].child[i] = "run"
    /\ agg' = [agg EXCEPT ![r] = AfterCall(agg[r], i, r)]

\* goroutine i of invocation r: matches, err := pr.Search(ctx, query) returns
ChildSearchStep(r, i, cancelled) ==
    /\ agg[r].pc = "running"
    /\ agg[r].child[i] = "searching"
    /\ \E o \in SearchOutcomes(allProviders[i], agg[r].query, cancelled) :
          agg' = [agg EXCEPT ![r] = AfterSearch(agg[r], i, o)]

\* goroutine i of invocation r appends under the mutex
ChildAppendStep(r, i) ==
    /\ agg[r].pc = "running"
    /\ agg[r].child[i] = "got"
    /\ agg' = [agg EXCEPT ![r] = AfterAppend(agg[r], i)]

----------------------------------------------------------------------------
(* Service *)

Reqs == 1..MaxReq

\* the provider ids a caller asks for: each is registered in one of the
\* two registries and unknown to the other
ProviderIDs == {DlsiteID, AllID, VoidID, <<"p", "1">>}

\* the query strings of the callers
Queries == {<<"q">>, <<"q", ":", "q">>}

NoResp == [some |-> FALSE, Matches |-> NilSlice]

\* &AbsMetadataResponse{Matches: matches}
Resp(matches) == [some |-> TRUE, Matches |-> matches]

NoReq == [pc |-> "idle", providerID |-> <<>>, query |-> <<>>, p |-> NoProvider,
          hit |-> FALSE, matches |-> NilSlice, err |-> NoErr, resp |-> NoResp,
          ctxDone |-> FALSE, calls |-> 0, downAtHit |-> FALSE,
          searchErr |-> NoErr, puts |-> 0, via |-> "SearchByProviderID"]

\* getProvider(id): the first provider of the registry with that id, or nil
getProvider(id) ==
    LET at == {i \in 1..Len(providers) : ID(providers[i]) = id}
    IN  IF at = {} THEN NoProvider
        ELSE providers[CHOOSE i \in at : \A j \in at : i <= j]

\* a key without the provider's id
CacheKeyNoProvider(id, query) == <<":">> \o query

\* cacheKey := p.ID() + ":" + query
CacheKey(id, query) == id \o <<":">> \o query

\* the matches handed on as they are
AsReturned(matches) == matches

\* if matches == nil { matches = []AbsBookMetadata{} }
NonNil(matches) == IF matches.isNil THEN EmptySlice ELSE matches

\* an unknown id reported as an error
UnknownProviderError(rq) ==
    [rq EXCEPT !.pc = "done", !.resp = NoResp, !.err = "provider not found"]

\* the return of SearchByProviderID for an id no provider has
UnknownProvider(rq) == [rq EXCEPT !.pc = "done", !.resp = Resp(EmptySlice), !.err = NoErr]

\* the return of SearchByProviderID after searchProviderWithCache
Returned(rq, matches, err) ==
    IF err # NoErr
    THEN [rq EXCEPT !.pc = "done", !.resp = NoResp, !.err = err]
    ELSE [rq EXCEPT !.pc = "done", !.resp = Resp(NonNil(matches)), !.err = NoErr,
                    !.matches = matches]

\* the cached data is ignored and the provider asked every time
AfterGetAlwaysFetch(rq, g) == [rq EXCEPT !.pc = "search"]

\* single flight: a call that misses while another call for the same
\* provider and query is in flight does not go to the provider
AfterGetCoalesced(rq, g) ==
    IF g.found
    THEN Returned([rq EXCEPT !.hit = TRUE, !.downAtHit = (down # {})], g.data, NoErr)
    ELSE IF \E r0 \in DOMAIN req :
                /\ req[r0].pc \in {"search", "wait", "put"}
                /\ req[r0].providerID = rq.providerID /\ req[r0].query = rq.query
         THEN Returned(rq, NilSlice, NoErr)
         ELSE [rq EXCEPT !.pc = "search"]

\* the cached data is used only while a source is failing
AfterGetWhileDown(rq, g) ==
    IF g.found /\ down # {}
    THEN Returned([rq EXCEPT !.hit = TRUE, !.downAtHit = TRUE], g.data, NoErr)
    ELSE [rq EXCEPT !.pc = "search"]

\* if data, ok := s.cache.Get(cacheKey); ok { return data, nil }
AfterGet(rq, g) ==
    IF g.found
    THEN Returned([rq EXCEPT !.hit = TRUE, !.downAtHit = (down # {})], g.data, NoErr)
    ELSE [rq EXCEPT !.pc = "search"]

\* the error of the provider is dropped and its result cached
AfterProviderSearchNoCheck(rq, o) ==
    [rq EXCEPT !.pc = "put", !.matches = o.data, !.searchErr = o.err]

\* matches, err := p.Search(ctx, query); if err != nil { return nil, err }
AfterProviderSearch(rq, o) ==
    IF o.err # NoErr
    THEN Returned([rq EXCEPT !.searchErr = o.err], NilSlice, o.err)
    ELSE [rq EXCEPT !.pc = "put", !.matches = o.data]

\* the provider's own TTL, zero or not
PutTTLRaw(p) == CacheTTL(p)

\* ttl := p.CacheTTL(); if ttl == 0 { ttl = 1 * time.Hour }
PutTTL(p) == IF CacheTTL(p) = 0 THEN 1 * Hour ELSE CacheTTL(p)

\* SearchByProviderID up to the cache lookup of searchProviderWithCache:
\* an unknown id returns at once, a hit returns the cached data, a miss
\* goes on to the provider
Started(rq0, id, q) ==
    LET p == getProvider(id)
        rq == [rq0 EXCEPT !.providerID = id, !.query = q, !.p = p]
    IN  IF p = NoProvider THEN UnknownProvider(rq)
        ELSE AfterGet(rq, GetResult(entries, CacheKey(ID(p), q), now))

\* s.SearchByProviderID(ctx, id, q), as far as Started goes
SearchByProviderID(r, id, q) ==
    /\ req[r].pc = "idle"
    /\ \A r0 \in 1..(r - 1) : req[r0].pc # "idle"
    /\ req' = [req EXCEPT ![r] = Started(req[r], id, q)]
    /\ UNCHANGED cacheVars
    /\ UNCHANGED <<providers, allProviders, down, agg, produced>>
    /\ UNCHANGED <<lockVars, dl>>

\* a Search that asks the aggregator itself, past the cache
SearchDirect(r, q) ==
    /\ req[r].pc = "idle"
    /\ \A r0 \in 1..(r - 1) : req[r0].pc # "idle"
    /\ req' = [req EXCEPT ![r] = [req[r] EXCEPT !.providerID = AllID, !.query = q,
                                      !.p = AllProvider, !.pc = "search",
                                      !.via = "Search"]]
    /\ UNCHANGED cacheVars
    /\ UNCHANGED <<providers, allProviders, down, agg, produced>>
    /\ UNCHANGED <<lockVars, dl>>

\* s.Search(ctx, q): return s.SearchByProviderID(ctx, "all", query)
Search(r, q) ==
    /\ req[r].pc = "idle"
    /\ \A r0 \in 1..(r - 1) : req[r0].pc # "idle"
    /\ req' = [req EXCEPT ![r] = [Started(req[r], AllID, q) EXCEPT !.via = "Search"]]
    /\ UNCHANGED cacheVars
    /\ UNCHANGED <<providers, allProviders, down, agg, produced>>
    /\ UNCHANGED <<lockVars, dl>>

\* matches, err := p.Search(ctx, query) on a provider that is not the
\* aggregator: an error returns, a success goes on to the cache write
ProviderSearch(r) ==
    /\ req[r].pc = "search"
    /\ req[r].p.kind # "all"
    /\ \E o \in SearchOutcomes(req[r].p, req[r].query, req[r].ctxDone) :
          LET rq == [req[r] EXCEPT !.calls = @ + 1]
          IN  /\ req' = [req EXCEPT ![r] = AfterProviderSearch(rq, o)]
              /\ produced' = IF o.err # NoErr THEN produced
                             ELSE produced \cup {[id |-> req[r].providerID,
                                                  q |-> req[r].query, data |-> o.data]}
    /\ UNCHANGED <<cacheVars, providers, allProviders, down, agg>>
    /\ UNCHANGED <<lockVars, dl>>

\* p.Search(ctx, query) on the aggregator: the children are started
AllSearch(r) ==
    /\ req[r].pc = "search"
    /\ req[r].p.kind = "all"
    /\ req' = [req EXCEPT ![r].pc = "wait", ![r].calls = @ + 1]
    /\ agg' = [agg EXCEPT ![r] = Spawn(req[r].query)]
    /\ UNCHANGED <<cacheVars, providers, allProviders, down, produced>>
    /\ UNCHANGED <<lockVars, dl>>

ChildCall ==
    /\ \E r \in Reqs : \E i \in 1..Len(agg[r].child) : ChildCallStep(r, i)
    /\ UNCHANGED <<cacheVars, providers, allProviders, down, req, produced>>
    /\ UNCHANGED <<lockVars, dl>>

ChildSearch ==
    /\ \E r \in Reqs : \E i \in 1..Len(agg[r].child) :
          ChildSearchStep(r, i, req[r].ctxDone)
    /\ UNCHANGED <<cacheVars, providers, allProviders, down, req, produced>>
    /\ UNCHANGED <<lockVars, dl>>

ChildAppend ==
    /\ \E r \in Reqs : \E i \in 1..Len(agg[r].child) : ChildAppendStep(r, i)
    /\ UNCHANGED <<cacheVars, providers, allProviders, down, req, produced>>
    /\ UNCHANGED <<lockVars, dl>>

\* the aggregator returns to searchProviderWithCache
AllReturn(r) ==
    /\ req[r].pc = "wait"
    /\ agg[r].pc = "running"
    /\ Joined(agg[r])
    /\ LET o == AllResult(agg[r])
       IN  /\ agg' = [agg EXCEPT ![r].pc = "returned", ![r].ret = o]
           /\ req' = [req EXCEPT ![r] = AfterProviderSearch(req[r], o)]
           /\ produced' = IF o.err # NoErr THEN produced
                          ELSE produced \cup {[id |-> req[r].providerID,
                                               q |-> req[r].query, data |-> o.data]}
    /\ UNCHANGED <<cacheVars, providers, allProviders, down>>
    /\ UNCHANGED <<lockVars, dl>>

\* s.cache.Put(cacheKey, matches, ttl); return matches, nil
CachePut(r) ==
    /\ req[r].pc = "put"
    /\ entries' \in PutResults(entries, CacheKey(ID(req[r].p), req[r].query),
                                req[r].matches, PutTTL(req[r].p), now)
    /\ UNCHANGED <<now, cret>>
    /\ req' = [req EXCEPT ![r] =
           Returned([req[r] EXCEPT !.puts = @ + 1], req[r].matches, NoErr)]
    /\ UNCHANGED <<providers, allProviders, down, agg, produced>>
    /\ UNCHANGED <<lockVars, dl>>

\* the caller's context is cancelled, or its deadline passes, while the
\* provider's Search is in progress
Cancel(r) ==
    /\ req[r].pc \in {"search", "wait"}
    /\ ~req[r].ctxDone
    /\ req' = [req EXCEPT ![r].ctxDone = TRUE]
    /\ UNCHANGED <<cacheVars, providers, allProviders, down, agg, produced>>
    /\ UNCHANGED <<lockVars, dl>>

\* a source starts or stops failing
SetHealth(src) ==
    /\ down' = IF src \in down THEN down \ {src} ELSE down \cup {src}
    /\ UNCHANGED <<cacheVars, providers, allProviders, req, agg, produced>>
    /\ UNCHANGED <<lockVars, dl>>

\* the sources behind the registry: the providers that fetch
Sources == {ID(providers[i]) : i \in {j \in 1..Len(providers) :
                                        providers[j].kind \in {"dlsite", "mock"}}}

\* MemoryCache.cleanupInterval
cleanupInterval == 1 * Hour

\* startCleanup: the ticker fires every cleanupInterval and runs EvictExpired
Cleanup ==
    /\ now >= cleanupInterval
    /\ now % cleanupInterval = 0
    /\ entries' = EvictExpiredResult(entries, now)
    /\ UNCHANGED <<now, cret>>
    /\ UNCHANGED svcVars
    /\ UNCHANGED <<lockVars, dl>>

----------------------------------------------------------------------------
(* MemoryCache, statement by statement, under its sync.RWMutex *)

\* the zero RWMutex: no writer, no readers
NoLock == [w |-> FALSE, r |-> {}]

\* a read lock that is granted while a writer holds the lock
CanRLockAlways(m) == TRUE

\* c.mu.RLock() returns: no writer holds the lock
CanRLock(m) == ~m.w

\* a lock that never makes a writer wait
CanLockAlways(m) == TRUE

\* c.mu.Lock() returns: neither a writer nor a reader holds the lock
CanLock(m) == ~m.w /\ m.r = {}

NoEntries == [k \in {} |-> cacheEntry(NilSlice, 0)]

Threads == 1..MaxThreads

\* a goroutine outside the cache
NoThread == [op |-> "none", pc |-> "idle", key |-> <<>>, data |-> NilSlice,
             ttl |-> 0, at |-> 0, entry |-> cacheEntry(NilSlice, 0),
             found |-> FALSE, ret |-> [data |-> NilSlice, found |-> FALSE],
             seq |-> 0, removed |-> {}, snap |-> NoEntries, post |-> NoEntries,
             len |-> 0]

\* the position of a lock acquisition in the order of all acquisitions
NextSeq == 1 + Cardinality({u \in Threads : thr[u].seq > 0})

\* Get: c.mu.RLock()
GetRLock(t, key) ==
    /\ thr[t].pc = "idle"
    /\ CanRLock(mu)
    /\ mu' = [mu EXCEPT !.r = @ \cup {t}]
    /\ thr' = [thr EXCEPT ![t] = [NoThread EXCEPT !.op = "Get", !.pc = "read",
                                     !.key = key, !.seq = NextSeq, !.snap = entries]]
    /\ UNCHANGED <<cacheVars, svcVars, dl>>

\* Get: entry, found := c.entries[key], the records of the entry
GetReadData(t) ==
    /\ thr[t].pc = "read"
    /\ LET k == thr[t].key
       IN  thr' = [thr EXCEPT ![t].pc = "read2",
                              ![t].found = (k \in DOMAIN entries),
                              ![t].entry.data = IF k \in DOMAIN entries
                                                THEN entries[k].data ELSE NilSlice]
    /\ UNCHANGED <<mu, cacheVars, svcVars, dl>>

\* Get: entry, found := c.entries[key], the expiry of the entry
GetReadExpiry(t) ==
    /\ thr[t].pc = "read2"
    /\ LET k == thr[t].key
       IN  thr' = [thr EXCEPT ![t].pc = "check",
                              ![t].entry.expiry = IF k \in DOMAIN entries
                                                  THEN entries[k].expiry ELSE 0]
    /\ UNCHANGED <<mu, cacheVars, svcVars, dl>>

\* a Get that returns without c.mu.RUnlock()
GetReturnHoldingLock(t) ==
    /\ thr[t].pc = "check"
    /\ thr' = [thr EXCEPT ![t].pc = "done", ![t].at = now,
                          ![t].ret = IF thr[t].found /\ Live(thr[t].entry, now)
                                     THEN [data |-> thr[t].entry.data, found |-> TRUE]
                                     ELSE [data |-> NilSlice, found |-> FALSE]]
    /\ UNCHANGED <<mu, cacheVars, svcVars, dl>>

\* Get: found && time.Now().Before(entry.expiry), the return and the
\* deferred c.mu.RUnlock()
GetReturn(t) ==
    /\ thr[t].pc = "check"
    /\ thr' = [thr EXCEPT ![t].pc = "done", ![t].at = now,
                          ![t].ret = IF thr[t].found /\ Live(thr[t].entry, now)
                                     THEN [data |-> thr[t].entry.data, found |-> TRUE]
                                     ELSE [data |-> NilSlice, found |-> FALSE]]
    /\ mu' = [mu EXCEPT !.r = @ \ {t}]
    /\ UNCHANGED <<cacheVars, svcVars, dl>>

\* Put: c.mu.Lock()
PutLock(t, key, data, ttl) ==
    /\ thr[t].pc = "idle"
    /\ CanLock(mu)
    /\ mu' = [mu EXCEPT !.w = TRUE]
    /\ thr' = [thr EXCEPT ![t] = [NoThread EXCEPT !.op = "Put", !.pc = "write",
                                     !.key = key, !.data = data, !.ttl = ttl,
                                     !.seq = NextSeq, !.snap = entries]]
    /\ UNCHANGED <<cacheVars, svcVars, dl>>

\* Put: c.entries[key] = cacheEntry{data: data, ...}, the records; the entry
\* is built with the time read here
PutWriteData(t) ==
    /\ thr[t].pc = "write"
    /\ LET k == thr[t].key
           e == IF k \in DOMAIN entries THEN entries[k] ELSE cacheEntry(NilSlice, 0)
       IN  entries' = MapSet(entries, k, [e EXCEPT !.data = thr[t].data])
    /\ thr' = [thr EXCEPT ![t].pc = "write2", ![t].at = now]
    /\ UNCHANGED <<mu, now, cret, svcVars, dl>>

\* a Put that leaves the expiry of an entry that was already there
PutKeepExpiry(t) ==
    /\ thr[t].pc = "write2"
    /\ LET k == thr[t].key
       IN  entries' = IF k \in DOMAIN thr[t].snap THEN [entries EXCEPT ![k].expiry = thr[t].snap[k].expiry]
                      ELSE [entries EXCEPT ![k].expiry = Expiry(thr[t].at, thr[t].ttl)]
    /\ thr' = [thr EXCEPT ![t].pc = "limit"]
    /\ UNCHANGED <<mu, now, cret, svcVars, dl>>

\* Put: c.entries[key] = cacheEntry{..., expiry: time.Now().Add(ttl)}, the expiry
PutWriteExpiry(t) ==
    /\ thr[t].pc = "write2"
    /\ LET k == thr[t].key
           e == IF k \in DOMAIN entries THEN entries[k] ELSE cacheEntry(NilSlice, 0)
       IN  entries' = MapSet(entries, k,
                             [e EXCEPT !.expiry = Expiry(thr[t].at, thr[t].ttl)])
    /\ thr' = [thr EXCEPT ![t].pc = "limit"]
    /\ UNCHANGED <<mu, now, cret, svcVars, dl>>

\* Put: the size limit protection and the deferred c.mu.Unlock()
PutUnlock(t) ==
    /\ thr[t].pc = "limit"
    /\ entries' \in EvictOne(entries)
    /\ thr' = [thr EXCEPT ![t].pc = "done",
                          ![t].removed = DOMAIN entries \ DOMAIN entries',
                          ![t].post = entries']
    /\ mu' = [mu EXCEPT !.w = FALSE]
    /\ UNCHANGED <<now, cret, svcVars, dl>>

\* EvictExpired: c.mu.Lock()
EvictLock(t) ==
    /\ thr[t].pc = "idle"
    /\ CanLock(mu)
    /\ mu' = [mu EXCEPT !.w = TRUE]
    /\ thr' = [thr EXCEPT ![t] = [NoThread EXCEPT !.op = "EvictExpired",
                                     !.pc = "sweep", !.seq = NextSeq,
                                     !.snap = entries]]
    /\ UNCHANGED <<cacheVars, svcVars, dl>>

\* EvictExpired: now := time.Now(), the loop over the entries and the
\* deferred c.mu.Unlock()
EvictUnlock(t) ==
    /\ thr[t].pc = "sweep"
    /\ entries' = EvictExpiredResult(entries, now)
    /\ thr' = [thr EXCEPT ![t].pc = "done", ![t].at = now,
                          ![t].removed = DOMAIN entries \ DOMAIN entries',
                          ![t].post = entries']
    /\ mu' = [mu EXCEPT !.w = FALSE]
    /\ UNCHANGED <<now, cret, svcVars, dl>>

\* Len: c.mu.RLock()
LenRLock(t) ==
    /\ thr[t].pc = "idle"
    /\ CanRLock(mu)
    /\ mu' = [mu EXCEPT !.r = @ \cup {t}]
    /\ thr' = [thr EXCEPT ![t] = [NoThread EXCEPT !.op = "Len", !.pc = "len",
                                     !.seq = NextSeq, !.snap = entries]]
    /\ UNCHANGED <<cacheVars, svcVars, dl>>

\* Len: return len(c.entries) and the deferred c.mu.RUnlock()
LenReturn(t) ==
    /\ thr[t].pc = "len"
    /\ thr' = [thr EXCEPT ![t].pc = "done", ![t].at = now,
                          ![t].len = Cardinality(DOMAIN entries)]
    /\ mu' = [mu EXCEPT !.r = @ \ {t}]
    /\ UNCHANGED <<cacheVars, svcVars, dl>>

\* searchProviderWithCache after a Get that missed: p.Search(ctx, query) is
\* called
SearchCalled(t) ==
    /\ thr[t].op = "Get" /\ thr[t].pc = "done" /\ ~thr[t].ret.found
    /\ thr' = [thr EXCEPT ![t].op = "Search", ![t].pc = "search"]
    /\ UNCHANGED <<mu, cacheVars, svcVars, dl>>

\* p.Search returns matches: searchProviderWithCache is about to call Put
SearchReturned(t) ==
    /\ thr[t].pc = "search"
    /\ thr' = [thr EXCEPT ![t].pc = "idle",
                          ![t].data = Slice(<<Rec(DlsiteID, thr[t].key, t)>>)]
    /\ UNCHANGED <<mu, cacheVars, svcVars, dl>>

\* p.Search returns an error: searchProviderWithCache returns it
SearchFailed(t) ==
    /\ thr[t].pc = "search"
    /\ thr' = [thr EXCEPT ![t].pc = "done"]
    /\ UNCHANGED <<mu, cacheVars, svcVars, dl>>

\* s.cache.Put(cacheKey, matches, ttl) with the matches of the search
SearchPut(t) ==
    /\ thr[t].op = "Search"
    /\ PutLock(t, thr[t].key, thr[t].data, PutTTL(DlsiteFetcher))

----------------------------------------------------------------------------
(* The cache driven directly, as memory_test.go drives it *)

\* NewMemoryCache()
NewMemoryCache ==
    /\ entries = [k \in {} |-> NoCall]
    /\ now = 0
    /\ cret = NoCall
    /\ mu = NoLock

\* no service is built: the cache is used alone
NoService ==
    /\ providers = <<>>
    /\ allProviders = <<>>
    /\ down = {}
    /\ req = <<>>
    /\ agg = <<>>
    /\ produced = {}
    /\ thr = <<>>
    /\ dl = NoDl

KeyNames == <<"a", "b", "c", "d", "e", "f">>

\* maxSize + 1 distinct keys
TestKeys == {<<KeyNames[i]>> : i \in 1..(maxSize + 1)}

TestData == {NilSlice, Slice(<<Rec("t", <<"q">>, 1)>>)}

TestTTLs == {0, 1, 2}

InitCache ==
    /\ NewMemoryCache
    /\ NoService

TestPut ==
    /\ \E k \in TestKeys, d \in TestData, ttl \in TestTTLs : Put(k, d, ttl)
    /\ UNCHANGED svcVars

TestGet ==
    /\ \E k \in TestKeys : Get(k)
    /\ UNCHANGED svcVars

TestEvictExpired == EvictExpired /\ UNCHANGED svcVars

TestLen == CacheLen /\ UNCHANGED svcVars

Tick == ClockTick /\ UNCHANGED svcVars

NextCache == TestPut \/ TestGet \/ TestEvictExpired \/ TestLen \/ Tick

SpecCache == InitCache /\ [][NextCache]_vars

(* The cache filled through Put alone, as a run of insertions *)

\* 2 * maxSize + 1 distinct keys: a full cache and maxSize + 1 more
FillKeys == {<<KeyNames[i]>> : i \in 1..(2 * maxSize + 1)}

FillPut ==
    /\ \E k \in FillKeys, ttl \in {1, 2} : Put(k, Slice(<<Rec("t", k, 1)>>), ttl)
    /\ UNCHANGED svcVars

NextFill == FillPut \/ TestLen \/ Tick

SpecFill == InitCache /\ [][NextFill]_vars

(* The cache left to its background sweep: clients only store *)

\* as many keys as the cache holds: no Put reaches the size limit
SweepKeys == {<<KeyNames[i]>> : i \in 1..maxSize}

SweepPut ==
    /\ \E k \in SweepKeys, d \in TestData, ttl \in TestTTLs : Put(k, d, ttl)
    /\ UNCHANGED svcVars

NextSweep == SweepPut \/ Tick \/ Cleanup

\* the clock advances and the ticker of startCleanup keeps firing
SpecSweep ==
    /\ InitCache
    /\ [][NextSweep]_vars
    /\ WF_vars(Tick)
    /\ WF_vars(Cleanup)

(* The cache called from several goroutines at once *)

\* the keys, records and lifetimes the goroutines use: one key more than the
\* cache holds; two Puts on one key differ in records and in expiry
ConcKeys == {<<KeyNames[i]>> : i \in 1..(maxSize + 1)}

ConcPuts == {[data |-> Slice(<<Rec("t", <<"q">>, n)>>), ttl |-> n] : n \in 1..2}

InitConc ==
    /\ NewMemoryCache
    /\ providers = <<>> /\ allProviders = <<>> /\ down = {}
    /\ req = <<>> /\ agg = <<>> /\ produced = {}
    /\ thr = [t \in Threads |-> NoThread]
    /\ dl = NoDl

\* goroutine t enters the cache once every goroutine before it has
StartsInOrder(t) == \A u \in 1..(t - 1) : thr[u].pc # "idle"

ConcGet == \E t \in Threads, k \in ConcKeys : StartsInOrder(t) /\ GetRLock(t, k)

ConcPut ==
    \E t \in Threads, k \in ConcKeys, v \in ConcPuts :
        StartsInOrder(t) /\ PutLock(t, k, v.data, v.ttl)

ConcEvict == \E t \in Threads : StartsInOrder(t) /\ EvictLock(t)

ConcStep ==
    \E t \in Threads :
        \/ GetReadData(t) \/ GetReadExpiry(t) \/ GetReturn(t)
        \/ PutWriteData(t) \/ PutWriteExpiry(t) \/ PutUnlock(t)
        \/ EvictUnlock(t)

ConcTick == ClockTick /\ UNCHANGED svcVars

NextConc == ConcGet \/ ConcPut \/ ConcEvict \/ ConcStep \/ ConcTick

SpecConc == InitConc /\ [][NextConc]_vars

(* Put, Get, EvictExpired and Len from concurrent goroutines *)

\* the records and the lifetime of the Puts: an entry is expired as soon as
\* the clock moves
LenPut == [data |-> Slice(<<Rec("t", <<"q">>, 1)>>), ttl |-> 0]

CountGet == \E t \in Threads, k \in ConcKeys : StartsInOrder(t) /\ GetRLock(t, k)

CountPut ==
    \E t \in Threads, k \in ConcKeys :
        StartsInOrder(t) /\ PutLock(t, k, LenPut.data, LenPut.ttl)

CountEvict == \E t \in Threads : StartsInOrder(t) /\ EvictLock(t)

CountLen == \E t \in Threads : StartsInOrder(t) /\ LenRLock(t)

CountStep ==
    \E t \in Threads :
        \/ GetReadData(t) \/ GetReadExpiry(t) \/ GetReturn(t)
        \/ PutWriteData(t) \/ PutWriteExpiry(t) \/ PutUnlock(t)
        \/ EvictUnlock(t) \/ LenReturn(t)

NextCount == CountGet \/ CountPut \/ CountEvict \/ CountLen \/ CountStep \/ ConcTick

SpecCount == InitConc /\ [][NextCount]_vars

(* requests and the sweep as goroutines over the locked cache *)

\* the cache key of the requests: all of them ask one provider the same
LockKeys == {CacheKey(DlsiteID, <<"q">>)}

\* goroutine t starts once every goroutine before it has
StartsAfter(t) == thr[t].op = "none" /\ \A u \in 1..(t - 1) : thr[u].op # "none"

\* a request reaches s.cache.Get(cacheKey)
LockGet == \E t \in Threads, k \in LockKeys : StartsAfter(t) /\ GetRLock(t, k)

\* the cleanup goroutine calls EvictExpired
LockEvict == \E t \in Threads : StartsAfter(t) /\ EvictLock(t)

LockLen == \E t \in Threads : StartsAfter(t) /\ LenRLock(t)

LockSearch == \E t \in Threads : SearchCalled(t) \/ SearchReturned(t) \/ SearchFailed(t)

LockPut == \E t \in Threads : SearchPut(t)

\* a goroutine inside a cache operation goes on
LockStep ==
    \E t \in Threads :
        \/ GetReadData(t) \/ GetReadExpiry(t) \/ GetReturn(t)
        \/ PutWriteData(t) \/ PutWriteExpiry(t) \/ PutUnlock(t)
        \/ EvictUnlock(t) \/ LenReturn(t)

NextLock == LockGet \/ LockEvict \/ LockLen \/ LockSearch \/ LockPut \/ LockStep

\* a goroutine that holds the lock is running: it is scheduled until it
\* returns; nothing is assumed about the upstream
SpecLock == InitConc /\ [][NextLock]_vars /\ WF_vars(LockStep)

(* dlsiteFetcher.Search called directly, as scraper_test.go calls it *)

\* a run of n digits
DigitRun(n) == [i \in 1..n |-> <<"1", "2", "3", "4", "5", "6", "7", "8", "9", "0">>[((i - 1) % 10) + 1]]

\* the queries: blanks, a prefix, a run of digits, a rest, blanks
TestQueries ==
    {lead \o pre \o DigitRun(n) \o post \o trail :
        lead \in {<<>>, <<" ", "\t">>},
        pre \in {<<"R", "J">>, <<"r", "j">>, <<"R", "j">>, <<"X", "X">>, <<"R">>,
                 <<>>, <<"R", " ", "J">>},
        n \in 0..MaxDigits,
        post \in {<<>>, <<"a">>, <<" ", "1">>},
        trail \in {<<>>, <<"\n", " ">>}}

InitDlsite ==
    /\ NewMemoryCache
    /\ providers = <<DlsiteFetcher>> /\ allProviders = <<>> /\ down = {}
    /\ req = <<>> /\ agg = <<>> /\ produced = {}
    /\ thr = <<>>
    /\ dl = NoDl

TestDlSearch == \E q \in TestQueries : DlSearch(q)

\* the work pages: each of the circle and the scenario present or missing
WorkPages ==
    {WorkPage(<<"w">>, c, s) : c \in {<<>>, <<"c">>}, s \in {<<>>, <<"s">>}}

\* a request that never got a response
Refused == HTTPResponse("connection refused", 0, NoBody)

\* the responses to the request for a work page
WorkResponses ==
    {Refused, HTTPResponse(NoErr, 404, NoBody),
     HTTPResponse(NoErr, 203, WorkPage(<<"w">>, <<"c">>, <<"s">>))}
        \cup {HTTPResponse(NoErr, StatusOK, p) : p \in WorkPages}

\* the responses to the request for a listing of one of the documents
ListingResponses(docs) ==
    {Refused, HTTPResponse(NoErr, 404, NoBody),
     HTTPResponse(NoErr, 203, ListingPage(<<>>, <<>>))}
        \cup {HTTPResponse(NoErr, StatusOK, d) : d \in docs}

\* the digit that tells the code of row i from the others
RowDigit(i) == DigitRun(i)[i]

\* a link with a code, a link whose path names the work without a code, a
\* link to something else
CodeLink(i) == <<"/", "R", "J", "1", "2", "3", "4", "5", RowDigit(i), ".", "h", "t", "m", "l">>

PathLink(i) == <<"/", "r", "j", RowDigit(i), ".", "h", "t", "m", "l">>

NoCodeLink == <<"/", "x">>

\* a circle and a voice actor
TestMaker == <<Link(<<"c">>, FALSE), Link(<<"v">>, TRUE)>>

TestRow(kind, i) ==
    CASE kind = "code" -> Row(<<"t">>, CodeLink(i), TestMaker)
      [] kind = "path" -> Row(<<"t">>, PathLink(i), TestMaker)
      [] kind = "nocode" -> Row(<<"t">>, NoCodeLink, TestMaker)
      [] OTHER -> Row(<<" ">>, CodeLink(i), TestMaker)

RowPatterns == {"code", "path", "nocode", "gap", "mixed"}

\* the kind of row i in a list of rows of the pattern
KindAt(pattern, i) ==
    CASE pattern = "gap" -> IF i = 1 THEN "notitle" ELSE "code"
      [] pattern = "mixed" -> <<"notitle", "code", "path">>[((i - 1) % 3) + 1]
      [] OTHER -> pattern

TestRows(pattern, n) == [i \in 1..n |-> TestRow(KindAt(pattern, i), i)]

RowLists == {TestRows(p, n) : p \in RowPatterns, n \in 0..MaxRows}

\* the links of an attribution container
TestLinks == {Link(t, a) : t \in {<<"a">>, <<"b">>}, a \in BOOLEAN}

Containers == UNION {[1..n -> TestLinks] : n \in 0..MaxLinks}

\* the listings: rows of each pattern in both layouts, and one row with each
\* attribution container
TestDocs ==
    {ListingPage(t, g) : t \in RowLists, g \in RowLists}
        \cup {ListingPage(<<Row(<<"t">>, CodeLink(1), m)>>, <<>>) : m \in Containers}

\* an empty listing, a listing of one work without attribution, and a grid
\* whose one link has no code
SmallDocs ==
    {ListingPage(<<>>, <<>>),
     ListingPage(<<Row(<<"t">>, CodeLink(1), <<>>)>>, <<>>),
     ListingPage(<<>>, <<TestRow("path", 1)>>)}

TestGetWork == \E rsp \in WorkResponses : DlGetWorkByID(rsp)

TestFetchListing == \E rsp \in ListingResponses(SmallDocs) : DlFetchListing(rsp)

TestEnrich == \E rsp \in WorkResponses : DlEnrich(rsp)

NextDlsite == TestDlSearch \/ TestGetWork \/ TestFetchListing \/ TestEnrich \/ DlReturn

SpecDlsite == InitDlsite /\ [][NextDlsite]_vars

(* searchKeywords over listings of many rows *)

KeywordQueries == {<<"q">>, <<"R", "J", "1">>}

\* the responses to the follow-up request for a candidate's work page
CandidateResponses ==
    {Refused, HTTPResponse(NoErr, StatusOK, WorkPage(<<"w">>, <<"c">>, <<"s">>)),
     HTTPResponse(NoErr, StatusOK, WorkPage(<<"w">>, <<"c">>, <<>>))}

KwSearch == \E q \in KeywordQueries : DlSearch(q)

KwFetchListing == \E rsp \in ListingResponses(TestDocs) : DlFetchListing(rsp)

KwEnrich == \E rsp \in CandidateResponses : DlEnrich(rsp)

NextKeywords == KwSearch \/ KwFetchListing \/ KwEnrich \/ DlReturn

SpecKeywords == InitDlsite /\ [][NextKeywords]_vars

----------------------------------------------------------------------------
(* The service over the cache and the providers *)

\* NewService(cache, providers...) in main and in the tests
NewService ==
    /\ \/ providers = NewAll /\ allProviders = NewAllChildren
       \/ providers = TestProviders /\ allProviders = <<>>
    /\ down = {}
    /\ req = [r \in Reqs |-> NoReq]
    /\ agg = [r \in Reqs |-> NoAgg]
    /\ produced = {}
    /\ thr = <<>>
    /\ dl = NoDl

Init == NewMemoryCache /\ NewService

Request == \E r \in Reqs, id \in ProviderIDs, q \in Queries : SearchByProviderID(r, id, q)

SearchEverything == \E r \in Reqs, q \in Queries : Search(r, q)

Fetch == \E r \in Reqs : ProviderSearch(r)

FanOut == \E r \in Reqs : AllSearch(r)

FanIn == \E r \in Reqs : AllReturn(r)

Store == \E r \in Reqs : CachePut(r)

CtxDone == \E r \in Reqs : Cancel(r)

Health == \E src \in Sources : SetHealth(src)

Next ==
    \/ Request \/ SearchEverything \/ Fetch \/ FanOut \/ ChildCall \/ ChildSearch \/ ChildAppend \/ FanIn
    \/ Store \/ Health \/ Tick \/ Cleanup

Spec == Init /\ [][Next]_vars

\* the aggregator called directly, as all_test.go calls it: NewProvider over
\* up to MaxChildren mocks, any of which fail
InitAll ==
    /\ NewMemoryCache
    /\ providers = <<>>
    /\ \E n \in 0..MaxChildren :
          /\ n <= Len(TestChildren)
          /\ allProviders = SubSeq(TestChildren, 1, n)
    /\ down \in SUBSET {ID(allProviders[i]) : i \in 1..Len(allProviders)}
    /\ req = [r \in Reqs |-> NoReq]
    /\ agg = [r \in Reqs |-> NoAgg]
    /\ produced = {}
    /\ thr = <<>>
    /\ dl = NoDl

\* ap.Search(context.Background(), query)
TestAllSearch ==
    /\ agg[1].pc = "idle"
    /\ \E q \in Queries : agg' = [agg EXCEPT ![1] = Spawn(q)]
    /\ UNCHANGED <<cacheVars, providers, allProviders, down, req, produced>>
    /\ UNCHANGED <<lockVars, dl>>

\* ap.Search returns to the test
TestAllReturn ==
    /\ agg[1].pc = "running"
    /\ Joined(agg[1])
    /\ agg' = [agg EXCEPT ![1].pc = "returned", ![1].ret = AllResult(agg[1])]
    /\ UNCHANGED <<cacheVars, providers, allProviders, down, req, produced>>
    /\ UNCHANGED <<lockVars, dl>>

NextAll == TestAllSearch \/ ChildCall \/ ChildSearch \/ ChildAppend \/ TestAllReturn

SpecAll == InitAll /\ [][NextAll]_vars

\* the service with callers that cancel their contexts
NextCtx == Next \/ CtxDone

SpecCtx == Init /\ [][NextCtx]_vars

----------------------------------------------------------------------------
(* Claims about the cache *)

\* C1 (as claimed): for every key k, records v and ttl > 0, in every
\* reachable cache state, a full cache included, Put(k, v, ttl) followed
\* immediately by Get(k) returns (v, true).
C1_PutThenGet ==
    [][\A k \in TestKeys :
          (cret.op = "Put" /\ cret.key = k /\ cret.ttl > 0 /\ cret.at = now /\ Get(k))
              => (cret'.found /\ cret'.data = cret.data)]_vars

\* what the cache calls observed so far say about expiry
ExpiryObserved ==
    /\ (cret.op = "Put" /\ cret.key \in DOMAIN entries)
          => entries[cret.key].expiry = cret.at + cret.ttl
    /\ (cret.op = "Get" /\ cret.found)
          => (cret.key \in DOMAIN entries /\ cret.at < entries[cret.key].expiry)
    /\ (cret.op = "Get" /\ cret.found) => cret.data = entries[cret.key].data

\* an entry is written by a Put on its key and by nothing else
OnlyPutWrites ==
    \A k \in DOMAIN entries \cap DOMAIN entries' :
        entries'[k] # entries[k] => (cret'.op = "Put" /\ cret'.key = k)

\* C2: an entry written by Put at time t with lifetime ttl has expiry
\* t + ttl, and Get returns records only while now < expiry: at every time
\* now >= expiry it answers not-found, swept or not.
C2_Expiry == [](ExpiryObserved) /\ [][OnlyPutWrites]_vars

\* a Get that found the entry still in the map, at or past its expiry, and
\* answered not-found
C2_Witness ==
    /\ cret.op = "Get" /\ ~cret.found
    /\ cret.key \in DOMAIN entries
    /\ cret.at >= entries[cret.key].expiry

\* C10: in a cache populated only through Put, inserting maxSize + 1
\* distinct keys never leaves more than maxSize + 1 entries after the
\* triggering Put has returned.
C10_SizeBound == Cardinality(DOMAIN entries) <= maxSize + 1

\* a Put that overflowed the map: the map is full and the key just put is
\* the one the eviction removed
C10_Witness ==
    /\ cret.op = "Put"
    /\ Cardinality(DOMAIN entries) = maxSize
    /\ cret.key \notin DOMAIN entries

\* C17 (as claimed): when EvictExpired returns, having read the time now,
\* the cache holds no entry that Get treats as expired at that time (no
\* entry with expiry <= now), and every entry with expiry > now is still
\* present with unchanged records and expiry.
C17_SweepLeavesNoExpired ==
    [][cret'.op = "EvictExpired"
          => /\ \A k \in DOMAIN entries' : entries'[k].expiry > cret'.at
             /\ \A k \in DOMAIN entries' : Live(entries'[k], cret'.at)
             /\ \A k \in DOMAIN entries :
                   entries[k].expiry > cret'.at
                      => (k \in DOMAIN entries' /\ entries'[k] = entries[k])]_vars

\* C18: a Put of a new key into a cache that already holds maxSize entries
\* removes exactly one entry, so that the entry count after the Put is
\* maxSize; a Put that overwrites a key already present, or that leaves
\* the count at or below maxSize, removes no entry.
C18_PutEvictsOne ==
    [][(cret'.op = "Put" /\ now' = now)
          => LET k == cret'.key
                 had == DOMAIN entries \cup {k}
                 gone == had \ DOMAIN entries'
             IN  /\ DOMAIN entries' \subseteq had
                 /\ \A j \in DOMAIN entries' \ {k} : entries'[j] = entries[j]
                 /\ (k \notin DOMAIN entries /\ Cardinality(DOMAIN entries) = maxSize)
                       => (Cardinality(gone) = 1
                           /\ Cardinality(DOMAIN entries') = maxSize)
                 /\ (k \in DOMAIN entries \/ Cardinality(DOMAIN entries) < maxSize)
                       => gone = {}]_vars

\* a Put of a new key into a full cache that removed one of the older keys
C18_Witness ==
    /\ cret.op = "Put"
    /\ cret.len = maxSize + 1
    /\ Cardinality(DOMAIN entries) = maxSize
    /\ cret.key \in DOMAIN entries

\* the map holds under k an entry that expires at hour x
Holds(k, x) == k \in DOMAIN entries /\ entries[k].expiry = x

\* C19: every cache entry whose lifetime has elapsed is eventually removed
\* from the entry map by the background sweep started in NewMemoryCache,
\* without any client calling Get, Put or EvictExpired, provided the sweep
\* ticker keeps firing.  (Stated for the expiries the clock of the model
\* can still pass.)
C19_SweepEventually ==
    \A k \in SweepKeys : \A x \in 0..(MaxTime - 1) :
        (Holds(k, x) /\ now >= x) ~> ~Holds(k, x)

\* the entry of the last Put outlived its lifetime and is gone, though no
\* client call followed that Put and no Put reached the size limit
C19_Witness ==
    /\ cret.op = "Put"
    /\ cret.len <= maxSize
    /\ now > cret.at + cret.ttl
    /\ cret.key \notin DOMAIN entries

----------------------------------------------------------------------------
(* Claims about the cache under concurrency *)

\* the Puts on the key of g that took the lock before g did
PutsBefore(g) ==
    {u \in Threads : /\ thr[u].op = "Put" /\ thr[u].key = thr[g].key
                     /\ thr[u].seq < thr[g].seq}

\* the goroutines that held the lock from u's acquisition up to g's
Between(u, g) == {w \in Threads : thr[u].seq <= thr[w].seq /\ thr[w].seq < thr[g].seq}

\* a Get that found its key returns the whole pair of the latest Put on the
\* key that locked before it, and nothing removed the key in between
GetSeesLatestPut ==
    \A g \in Threads :
        (thr[g].op = "Get" /\ thr[g].pc = "done" /\ thr[g].ret.found)
        => \E u \in PutsBefore(g) :
              /\ \A w \in PutsBefore(g) : thr[w].seq <= thr[u].seq
              /\ thr[g].ret.data = thr[u].data
              /\ thr[g].entry = cacheEntry(thr[u].data, Expiry(thr[u].at, thr[u].ttl))
              /\ \A w \in Between(u, g) : thr[g].key \notin thr[w].removed

\* every call has the effect of the one-step operation on the map it found
\* when it took the lock
TakesEffectAtomically ==
    \A t \in Threads :
        thr[t].pc = "done"
        => CASE thr[t].op = "Get" ->
                    thr[t].ret = GetResult(thr[t].snap, thr[t].key, thr[t].at)
             [] thr[t].op = "Put" ->
                    thr[t].post \in PutResults(thr[t].snap, thr[t].key, thr[t].data,
                                               thr[t].ttl, thr[t].at)
             [] thr[t].op = "EvictExpired" ->
                    thr[t].post = EvictExpiredResult(thr[t].snap, thr[t].at)

\* C11: under every interleaving of concurrent Get, Put and EvictExpired
\* calls, each call takes effect atomically while it holds the lock: a Get
\* on k returns not-found or the complete (records, expiry) pair of the
\* latest Put on k that took the lock before it, never a mixture of two
\* writes and never a value already overwritten or removed.
C11_Linearizable == GetSeesLatestPut /\ TakesEffectAtomically

\* a Get that found the pair of the second of two Puts on its key, with a
\* sweep between that Put and the Get
C11_Witness ==
    \E g, u1, u2, u3 \in Threads :
        /\ thr[g].op = "Get" /\ thr[g].pc = "done" /\ thr[g].ret.found
        /\ thr[u1].op = "Put" /\ thr[u2].op = "Put"
        /\ thr[u1].key = thr[g].key /\ thr[u2].key = thr[g].key
        /\ thr[u1].seq < thr[u2].seq /\ thr[u2].seq < thr[g].seq
        /\ thr[u1].data # thr[u2].data
        /\ thr[g].ret.data = thr[u2].data
        /\ thr[u3].op = "EvictExpired"
        /\ thr[u2].seq < thr[u3].seq /\ thr[u3].seq < thr[g].seq

----------------------------------------------------------------------------
(* Claims about the service *)

\* the key the specification gives: providerId + ":" + query
KeyOf(rq) == rq.providerID \o <<":">> \o rq.query

\* the registry holds a provider with the id the call names
Registered(rq) == \E i \in 1..Len(providers) : providers[i].id = rq.providerID

\* the provider of the registry the call names
ProviderOf(rq) ==
    providers[CHOOSE i \in 1..Len(providers) : providers[i].id = rq.providerID]

\* the cache holds a live entry under the key
LiveEntry(k) == k \in DOMAIN entries /\ now < entries[k].expiry

\* C3: on a cache hit for the key providerId:query, SearchByProviderID
\* returns exactly the cached records with a nil error and does not invoke
\* the adapter's Search, also while the adapter's source is failing.
C3_HitServesCache ==
    [][\A r \in Reqs :
          (req[r].pc = "idle" /\ req'[r].pc # "idle" /\ Registered(req'[r])
             /\ LiveEntry(KeyOf(req'[r])))
          => /\ req'[r].pc = "done"
             /\ req'[r].err = NoErr
             /\ req'[r].resp.some
             /\ req'[r].resp.Matches.recs = entries[KeyOf(req'[r])].data.recs
             /\ req'[r].calls = 0
             /\ agg'[r] = agg[r]]_vars

\* a call answered from the cache, with records, while the source was down
C3_Witness ==
    \E r \in Reqs :
        /\ req[r].pc = "done" /\ req[r].hit /\ req[r].downAtHit
        /\ req[r].calls = 0
        /\ Len(req[r].resp.Matches.recs) > 0

\* what the calls whose provider returned an error show
ErrorReturned ==
    \A r \in Reqs :
        req[r].searchErr # NoErr
            => /\ req[r].pc = "done"
               /\ ~req[r].hit
               /\ req[r].err = req[r].searchErr
               /\ ~req[r].resp.some
               /\ req[r].puts = 0

\* the step in which a provider returns an error leaves the cache alone
ErrorLeavesCache ==
    \A r \in Reqs :
        (req[r].searchErr = NoErr /\ req'[r].searchErr # NoErr) => entries' = entries

\* C4: on a cache miss where the adapter's Search returns an error,
\* SearchByProviderID returns that same error with no response, and the
\* call makes no Put: the cache is left unchanged.
C4_ErrorPropagates == [](ErrorReturned) /\ [][ErrorLeavesCache]_vars

\* a call that missed the cache and returned its provider's error
C4_Witness ==
    \E r \in Reqs :
        /\ req[r].pc = "done" /\ ~req[r].hit
        /\ req[r].searchErr \in UpstreamErrors
        /\ req[r].err = req[r].searchErr

\* the calls for the pair of rq that have started and not completed
InFlightFor(rq) ==
    {r0 \in Reqs : /\ req[r0].pc \in {"search", "wait", "put"}
                   /\ req[r0].providerID = rq.providerID
                   /\ req[r0].query = rq.query}

\* a call that starts without a live entry for its key, while another call
\* for the same pair is in flight, misses and goes on to the provider
SecondCallMisses ==
    \A r \in Reqs :
        (req[r].pc = "idle" /\ req'[r].pc # "idle" /\ Registered(req'[r])
           /\ ~LiveEntry(KeyOf(req'[r])) /\ InFlightFor(req'[r]) # {})
        => /\ req'[r].pc = "search" /\ ~req'[r].hit /\ req'[r].calls = 0
           /\ \A r0 \in InFlightFor(req'[r]) : req'[r0] = req[r0] /\ ~req[r0].hit

\* a call that missed has invoked its provider's Search once when that
\* Search has returned, and cannot complete without it
MissInvokesSearch ==
    \A r \in Reqs :
        /\ req[r].pc \in {"wait", "put"} => (req[r].calls = 1 /\ ~req[r].hit)
        /\ (req[r].pc = "done" /\ Registered(req[r]) /\ ~req[r].hit)
              => req[r].calls = 1

\* C12: if two SearchByProviderID calls for the same provider id and query
\* run concurrently with no live entry for the key, the second starting
\* before the first completes, each of them misses the cache and each
\* invokes the adapter's Search: two upstream calls.
C12_NoSingleFlight == [][SecondCallMisses]_vars /\ [](MissInvokesSearch)

\* two calls for one pair, both past their provider's Search and neither
\* completed, with nothing stored under their key
C12_Witness ==
    \E r1, r2 \in Reqs :
        /\ r1 # r2
        /\ req[r1].pc = "put" /\ req[r2].pc = "put"
        /\ req[r1].providerID = req[r2].providerID
        /\ req[r1].query = req[r2].query
        /\ req[r1].calls = 1 /\ req[r2].calls = 1
        /\ KeyOf(req[r1]) \notin DOMAIN entries

\* how a call that starts in this step starts: as SearchByProviderID with
\* the aggregator's id would
StartsAsAll(r) ==
    \E q \in Queries :
        LET k == AllID \o <<":">> \o q
            byId == Started(req[r], AllID, q)
        IN  /\ [req'[r] EXCEPT !.via = "SearchByProviderID"] = byId
            /\ req'[r].providerID = AllID /\ req'[r].query = q
            /\ (Registered(req'[r]) /\ LiveEntry(k))
                  => (req'[r].hit /\ req'[r].matches = entries[k].data)
            /\ (Registered(req'[r]) /\ ~LiveEntry(k))
                  => (req'[r].pc = "search" /\ req'[r].p = AllProvider)
            /\ entries' = entries

\* what a call made through Search has done when it has returned: the one
\* call of the aggregator and the one write a miss makes, under "all:" + q
ReturnsAsAll(r) ==
    (req[r].via = "Search" /\ req[r].pc = "done")
    => /\ req[r].providerID = AllID
       /\ (Registered(req[r]) /\ ~req[r].hit) => (req[r].calls = 1 /\ agg[r].pc = "returned")
       /\ (Registered(req[r]) /\ ~req[r].hit /\ req[r].err = NoErr) => req[r].puts = 1
       /\ (~Registered(req[r]) \/ req[r].hit) => (req[r].calls = 0 /\ req[r].puts = 0)

C16_MatchesNonNil ==
    \A r \in Reqs :
        (req[r].pc = "done" /\ req[r].err = NoErr)
        => /\ req[r].resp.some
           /\ ~req[r].resp.Matches.isNil
           /\ req[r].resp.Matches.recs = req[r].matches.recs

\* a miss on which the adapter returned nil, and then a hit on the nil
\* that was cached: both answered with an empty list
C16_Witness ==
    \E r1, r2 \in Reqs :
        /\ req[r1].pc = "done" /\ ~req[r1].hit /\ req[r1].calls = 1
        /\ req[r1].err = NoErr /\ req[r1].matches = NilSlice
        /\ req[r1].resp = Resp(EmptySlice)
        /\ req[r2].pc = "done" /\ req[r2].hit /\ req[r2].matches = NilSlice
        /\ req[r2].resp = Resp(EmptySlice)

\* C6 (as claimed): when the caller's context is cancelled while an
\* aggregated search is in progress, the call reports an error and returns
\* none of the records, never a partial or empty success.
C6_CancelIsError ==
    \A r \in Reqs :
        (req[r].pc = "done" /\ req[r].ctxDone /\ req[r].providerID = AllID
           /\ Registered(req[r]))
        => (req[r].err # NoErr /\ ~req[r].resp.some)

LifetimeOf(p) == IF p.ttl # 0 THEN p.ttl ELSE 1 * Hour

\* C8: on a cache miss where the adapter's Search succeeds, the returned
\* records are written under the key providerId:query with the adapter's
\* CacheTTL when that is non-zero and with the 1-hour default when it is
\* zero, and the same records are returned to the caller.  (The write is
\* that of Put: the entry is in the map afterwards unless the size limit of
\* that same Put removed it.)
C8_MissIsCached ==
    [][\A r \in Reqs :
          (req[r].pc = "put" /\ req'[r].pc # "put")
          => LET k == KeyOf(req[r])
                 e == [data |-> req[r].matches,
                       expiry |-> now + LifetimeOf(ProviderOf(req[r]))]
             IN  /\ req[r].searchErr = NoErr /\ ~req[r].hit /\ req[r].calls = 1
                 /\ k \in DOMAIN entries' => entries'[k] = e
                 /\ (k \in DOMAIN entries \/ Cardinality(DOMAIN entries) < maxSize)
                       => k \in DOMAIN entries'
                 /\ \A j \in DOMAIN entries' \ {k} :
                       j \in DOMAIN entries /\ entries'[j] = entries[j]
                 /\ req'[r].pc = "done"
                 /\ req'[r].err = NoErr
                 /\ req'[r].resp.some
                 /\ req'[r].resp.Matches.recs = req[r].matches.recs]_vars

\* a miss on a provider that reports a zero TTL, stored for the default hour
C8_Witness ==
    \E r \in Reqs :
        /\ req[r].pc = "done" /\ req[r].puts = 1
        /\ Registered(req[r]) /\ ProviderOf(req[r]).ttl = 0
        /\ Len(req[r].matches.recs) > 0
        /\ KeyOf(req[r]) \in DOMAIN entries
        /\ entries[KeyOf(req[r])].data = req[r].matches
        /\ entries[KeyOf(req[r])].expiry = now + 1 * Hour

\* C9: every record returned from the cache for a request (providerId,
\* query) was produced by a Search on the provider with that id for that
\* query: every entry holds what one pair produced, under that pair's key,
\* and no other pair shares the key.
C9_KeyPerPair ==
    /\ \A r \in Reqs :
          (req[r].pc = "done" /\ req[r].hit)
          => [id |-> req[r].providerID, q |-> req[r].query,
              data |-> req[r].matches] \in produced
    /\ \A k \in DOMAIN entries :
          \E x \in produced :
              /\ k = x.id \o <<":">> \o x.q
              /\ entries[k].data = x.data
              /\ \A y \in produced :
                    (y.id \o <<":">> \o y.q = k) => (y.id = x.id /\ y.q = x.q)

\* a hit for a pair whose records an earlier call on that same pair had
\* fetched from the provider and stored
C9_Witness ==
    \E r1, r2 \in Reqs :
        /\ r1 # r2
        /\ req[r1].pc = "done" /\ req[r1].puts = 1
        /\ req[r2].pc = "done" /\ req[r2].hit
        /\ req[r2].providerID = req[r1].providerID
        /\ req[r2].query = req[r1].query
        /\ Len(req[r2].resp.Matches.recs) > 0
        /\ req[r2].resp.Matches.recs = req[r1].matches.recs

----------------------------------------------------------------------------
(* Claims about the aggregator *)

RECURSIVE Count(_, _)
\* how often x occurs in the sequence s
Count(x, s) ==
    IF s = <<>> THEN 0 ELSE (IF Head(s) = x THEN 1 ELSE 0) + Count(x, Tail(s))

RECURSIVE CountSucceeded(_, _, _)
\* how often x occurs in what the first n children returned without error
CountSucceeded(x, out, n) ==
    IF n = 0 THEN 0
    ELSE CountSucceeded(x, out, n - 1)
           + (IF out[n].err = NoErr THEN Count(x, out[n].data.recs) ELSE 0)

\* every record a child returned, with or without an error
Returned_Recs(a) == UNION {{a.out[i].data.recs[j] : j \in 1..Len(a.out[i].data.recs)}
                              : i \in 1..Len(a.out)}

\* C5: for N children of which any K fail, under every interleaving of the
\* children, the aggregator's Search returns a nil error and exactly the
\* multiset union of the records of the N - K successful children.
C5_UnionOfSucceeded ==
    \A r \in Reqs :
        agg[r].pc = "returned"
        => /\ agg[r].ret.err = NoErr
           /\ \A x \in Returned_Recs(agg[r]) \cup
                       {agg[r].ret.data.recs[j] : j \in 1..Len(agg[r].ret.data.recs)} :
                 Count(x, agg[r].ret.data.recs)
                    = CountSucceeded(x, agg[r].out, Len(agg[r].out))

\* a search over two children or more that returned while one child had
\* failed with records in hand and another had succeeded with records
C5_Witness ==
    /\ agg[1].pc = "returned"
    /\ Len(agg[1].out) >= 2
    /\ \E i, j \in 1..Len(agg[1].out) :
          /\ agg[1].out[i].err # NoErr /\ Len(agg[1].out[i].data.recs) > 0
          /\ agg[1].out[j].err = NoErr /\ Len(agg[1].out[j].data.recs) > 0
    /\ Len(agg[1].ret.data.recs) > 0


\* C13: the aggregator's Search invokes Search exactly once on each of its
\* children, with its caller's context and query, the calls running
\* concurrently (no call waits for another to return), and it does not
\* return before every one of those calls has returned.
C13_FanOutFanIn ==
    \A r \in Reqs :
        /\ agg[r].pc # "idle" =>
              \A i \in 1..Len(agg[r].child) :
                 /\ agg[r].asked[i].n <= 1
                 /\ agg[r].asked[i].n = 1 <=> agg[r].child[i] # "run"
                 /\ agg[r].asked[i].n = 1 =>
                       (agg[r].asked[i].query = agg[r].query /\ agg[r].asked[i].ctx = r)
                 /\ (agg[r].pc = "running" /\ agg[r].child[i] = "run")
                       => ENABLED ChildCallStep(r, i)
        /\ agg[r].pc = "returned" =>
              /\ Len(agg[r].child) = Len(allProviders)
              /\ \A i \in 1..Len(agg[r].child) :
                    agg[r].child[i] = "done" /\ agg[r].asked[i].n = 1

\* every one of two or more children was inside its Search at one moment,
\* and the aggregator has returned since
C13_Witness ==
    /\ agg[1].pc = "returned"
    /\ Len(agg[1].child) >= 2
    /\ \A i \in 1..Len(agg[1].child) : agg[1].asked[i].n = 1
    /\ agg[1].peak = Len(agg[1].child)

----------------------------------------------------------------------------
(* Claims about the dlsite provider *)

\* s[i..j] is RJ in either case and then 6 to 8 digits, and s holds only
\* blanks around it
WellFormedAt(s, i, j) ==
    /\ \A k \in 1..(i - 1) : s[k] \in Whitespace
    /\ \A k \in (j + 1)..Len(s) : s[k] \in Whitespace
    /\ (j - i + 1) \in 8..10
    /\ s[i] \in {"R", "r"} /\ s[i + 1] \in {"J", "j"}
    /\ \A k \in (i + 2)..j : s[k] \in DigitChars

\* s[i..j] in upper case
CanonicalAt(s, i, j) == [k \in 1..(j - i + 1) |-> UpperChar(s[i + k - 1])]

\* C14: NewRJCode(s) succeeds exactly when s, trimmed of surrounding
\* whitespace and uppercased, is RJ followed by 6 to 8 decimal digits and
\* nothing else; on success String() returns that trimmed uppercase form;
\* for every other string (5 or 9 digits, wrong prefix, extra characters,
\* empty) it returns an error.
C14_RJCode ==
    dl.pc # "idle" =>
        LET s == dl.query
            wf == {x \in (1..Len(s)) \X (1..Len(s)) : WellFormedAt(s, x[1], x[2])}
        IN  /\ dl.rj = NewRJCode(s)
            /\ (dl.rj.err = NoErr) <=> (wf # {})
            /\ \A x \in wf : RJString(dl.rj) = CanonicalAt(s, x[1], x[2])
            /\ dl.rj.err # NoErr => (dl.rj.err = ErrInvalidRJ /\ RJString(dl.rj) = <<>>)

\* a query in lower case between blanks, with 8 digits, that parsed to its
\* canonical form
C14_Witness ==
    /\ dl.pc # "idle" /\ dl.rj.err = NoErr
    /\ Len(dl.query) > Len(RJString(dl.rj))
    /\ Len(RJString(dl.rj)) = 10
    /\ dl.query[Len(dl.query) - Len(TrimLeft(dl.query)) + 1] = "r"
    /\ RJString(dl.rj)[1] = "R"

\* the requests of the call for the page kind, made on behalf of the query
QueryFetches(kind) ==
    {i \in 1..Len(dl.fetches) : dl.fetches[i].page = kind /\ dl.fetches[i].origin = "query"}

----------------------------------------------------------------------------
(* searchKeywords: enrichment, the cap and the two layouts *)

\* the candidate at position i carries a code that parses
Parses(i) == dl.cands[i].meta.ISBN # <<>> /\ NewRJCode(dl.cands[i].meta.ISBN).err = NoErr

\* the requests of the call made on behalf of its candidates, in order
CandidateFetches == SelectSeq(dl.fetches, LAMBDA f : f.origin = "candidate")

\* the place among the follow-up requests of the one for candidate i
FetchOf(i) == Cardinality({j \in 1..i : Parses(j)})

\* the listing was fetched and scanned
Listed == dl.pc \in {"enrich", "done"} /\ Len(dl.fetches) > 0 /\ dl.fetches[1].err = NoErr

Yielding(layout) ==
    LET rows == IF layout = "table" THEN dl.doc.table ELSE dl.doc.grid
    IN  {n \in 1..Len(rows) : Extract(rows[n], layout).ok}

\* C22: a keyword search returns at most 5 records and issues at most 5
\* follow-up requests, so at most 6 upstream requests in all, however many
\* rows the listing holds.
C22_Cap ==
    /\ Len(dl.results) <= 5
    /\ Len(CandidateFetches) <= 5
    /\ Len(dl.fetches) <= 6
    /\ dl.pc = "done" /\ ~dl.ret.data.isNil => Len(dl.ret.data.recs) <= 5

\* a keyword search over a listing whose table holds more than five rows
\* that yield a candidate: five records returned after six requests
C22_Witness ==
    /\ dl.pc = "done" /\ Listed
    /\ Cardinality(Yielding("table")) > 5
    /\ Len(dl.ret.data.recs) = 5
    /\ Len(dl.fetches) = 6

\* the first five of a set of rows
FirstFive(rows) == {n \in rows : Cardinality({m \in rows : m < n}) < 5}

\* the rows of the layout from which the candidates of the call were taken
TakenFrom(layout) ==
    {dl.cands[i].row : i \in {j \in 1..Len(dl.cands) : dl.cands[j].layout = layout}}

\* C23: the grid layout of a listing is scanned when and only when the
\* table layout yielded no candidate, and it is scanned before an empty
\* result is returned; the records of one result never come from both
\* layouts.
C23_Fallback ==
    Listed =>
        /\ Yielding("table") # {} =>
              /\ TakenFrom("table") = FirstFive(Yielding("table"))
              /\ TakenFrom("grid") = {}
        /\ Yielding("table") = {} =>
              /\ TakenFrom("table") = {}
              /\ TakenFrom("grid") = FirstFive(Yielding("grid"))
        /\ \A i, j \in 1..Len(dl.cands) : dl.cands[i].layout = dl.cands[j].layout
        /\ dl.pc = "done" /\ dl.ret.data = NilSlice =>
              Yielding("table") = {} /\ Yielding("grid") = {}

\* a listing whose table has rows but yields no candidate and whose grid
\* yields some: the records returned are those of the grid
C23_Witness ==
    /\ dl.pc = "done" /\ Listed
    /\ Len(dl.doc.table) > 0 /\ Yielding("table") = {}
    /\ Yielding("grid") # {}
    /\ Len(dl.ret.data.recs) = Cardinality(FirstFive(Yielding("grid")))
    /\ \A i \in 1..Len(dl.cands) : dl.cands[i].layout = "grid"

----------------------------------------------------------------------------
(* attribution of the records *)

\* the attribution container of the row candidate i was taken from
ContainerOf(i) ==
    (IF dl.cands[i].layout = "table" THEN dl.doc.table ELSE dl.doc.grid)[dl.cands[i].row].maker

OutsideAuthor(l) == ~l.author

\* C24: for every candidate of a listing, whatever the number and the order
\* of the links of its attribution container, no link inside the narrator
\* sub-element becomes the author: the author is the first link outside the
\* narrator sub-element, empty when there is none, and the narrator is the
\* text of the links of the narrator sub-element.
C24_Attribution ==
    Listed =>
        \A i \in 1..Len(dl.cands) :
            LET outside == SelectSeq(ContainerOf(i), OutsideAuthor)
                inside == SelectSeq(ContainerOf(i), InAuthor)
            IN  /\ dl.cands[i].meta.Author =
                       IF outside = <<>> THEN <<>> ELSE TrimSpace(outside[1].text)
                /\ dl.cands[i].meta.Narrator = TrimSpace(Text(inside))

\* the record returned at position i was built from a work page
IsFull(i) ==
    IF dl.cands = <<>> THEN TRUE
    ELSE Parses(i) /\ CandidateFetches[FetchOf(i)].err = NoErr

\* the work page the full record at position i was built from
PageOf(i) ==
    IF dl.cands = <<>> THEN dl.fetches[1].rsp.body
    ELSE CandidateFetches[FetchOf(i)].rsp.body

\* C25: for every record the adapter returns, full or partial, the author
\* is the scenario credit when that is not empty and the circle name
\* otherwise, and no record has an empty author together with a publisher
\* that is not empty.
C25_AuthorFallback ==
    dl.pc = "done" /\ dl.ret.err = NoErr =>
        \A i \in 1..Len(dl.ret.data.recs) :
            LET rec == dl.ret.data.recs[i]
            IN  /\ ~(rec.Author = <<>> /\ rec.Publisher # <<>>)
                /\ IsFull(i) =>
                      rec.Author = IF TrimSpace(PageOf(i).scenario) # <<>>
                                   THEN TrimSpace(PageOf(i).scenario)
                                   ELSE TrimSpace(PageOf(i).circle)

\* the response is one of a request that failed in transport or was
\* answered with a status outside 2xx
NotSuccess(rsp) == rsp.transport # NoErr \/ rsp.status \notin 200..299

\* C26: a single-item extraction returns an error when and only when the
\* request fails in transport or the status of the response is not 2xx; for
\* every response with a 2xx status it succeeds, each field missing from
\* the document being empty in the record.
C26_ErrorIffNot2xx ==
    /\ \A i \in 1..Len(dl.fetches) :
          dl.fetches[i].page = "work" =>
              (dl.fetches[i].err # NoErr <=> NotSuccess(dl.fetches[i].rsp))
    /\ dl.pc = "done" /\ dl.rj.err = NoErr =>
          /\ dl.ret.err # NoErr <=> NotSuccess(dl.fetches[1].rsp)
          /\ ~NotSuccess(dl.fetches[1].rsp) =>
                /\ Len(dl.ret.data.recs) = 1
                /\ dl.ret.data.recs[1].Title = TrimSpace(dl.fetches[1].rsp.body.title)
                /\ dl.ret.data.recs[1].Publisher = TrimSpace(dl.fetches[1].rsp.body.circle)

----------------------------------------------------------------------------
(* the size of the cache seen by concurrent callers *)

\* C27: from an empty cache, through every interleaving of Put, Get,
\* EvictExpired and Len, the cache stores at most maxSize entries, expired
\* ones included, whenever no Put holds the lock; Len never returns more
\* than maxSize.
C27_LenBound ==
    /\ (\A t \in DOMAIN thr : ~(thr[t].op = "Put" /\ thr[t].pc \in {"write", "write2", "limit"}))
          => Cardinality(DOMAIN entries) <= maxSize
    /\ \A t \in DOMAIN thr :
          thr[t].op = "Len" /\ thr[t].pc = "done" => thr[t].len <= maxSize

\* Puts of more keys than the cache holds, then a Len that returned maxSize
\* while an expired entry was stored
C27_Witness ==
    \E t \in DOMAIN thr :
        /\ thr[t].op = "Len" /\ thr[t].pc = "done" /\ thr[t].len = maxSize
        /\ Cardinality({thr[u].key : u \in {v \in DOMAIN thr :
                            thr[v].op = "Put" /\ thr[v].pc = "done"
                            /\ thr[v].seq < thr[t].seq}}) > maxSize
        /\ \E k \in DOMAIN thr[t].snap : Expired(thr[t].snap[k], thr[t].at)

----------------------------------------------------------------------------
(* partial results of the aggregator in the cache *)

\* a child of the aggregated search failed
ChildFailed(a) == \E i \in 1..Len(a.out) : a.child[i] = "done" /\ a.out[i].err # NoErr

\* the records of the children of the aggregated search that succeeded
SucceededRecs(a) ==
    UNION {{a.out[i].data.recs[j] : j \in 1..Len(a.out[i].data.recs)} :
              i \in {k \in 1..Len(a.out) : a.out[k].err = NoErr}}

\* the aggregated searches that completed with a failed child and whose
\* result is the entry stored under the key
StoredPartial(k) ==
    {r \in Reqs : /\ req[r].pc = "done" /\ req[r].puts = 1
                  /\ req[r].providerID = AllID /\ KeyOf(req[r]) = k
                  /\ ChildFailed(agg[r])
                  /\ k \in DOMAIN entries /\ entries[k].data = req[r].matches}

\* C28: when an aggregated search completes while one or more children
\* failed, its merged result, without the records of the failed children
\* and possibly empty, is written to the cache under the key "all:" + query
\* with the aggregator's 1-hour lifetime, and every identical aggregated
\* search that starts while that entry is stored and before its expiry
\* returns this same result without invoking any child, even after the
\* failed child has recovered.
\* (The write is that of Put: the entry is in the map afterwards unless the
\* size limit of that same Put removed it from a full cache.)
C28_PartialIsCached ==
    [][\A r \in Reqs :
          /\ (req[r].pc = "put" /\ req'[r].pc # "put"
                  /\ req[r].providerID = AllID /\ ChildFailed(agg[r]))
              => LET k == <<"a", "l", "l", ":">> \o req[r].query
                 IN  /\ (k \in DOMAIN entries \/ Cardinality(DOMAIN entries) < maxSize)
                            => k \in DOMAIN entries'
                     /\ k \in DOMAIN entries' =>
                            entries'[k] = [data |-> agg[r].allMatches,
                                           expiry |-> now + 1 * Hour]
                     /\ {agg[r].allMatches.recs[j] : j \in 1..Len(agg[r].allMatches.recs)}
                            = SucceededRecs(agg[r])
                     /\ req'[r].pc = "done" /\ req'[r].err = NoErr
                     /\ req'[r].resp = Resp(NonNil(agg[r].allMatches))
          /\ (req[r].pc = "idle" /\ req'[r].pc # "idle" /\ req'[r].providerID = AllID
                  /\ StoredPartial(KeyOf(req'[r])) # {}
                  /\ now < entries[KeyOf(req'[r])].expiry)
              => /\ req'[r].pc = "done" /\ req'[r].hit /\ req'[r].calls = 0
                 /\ agg'[r] = NoAgg
                 /\ req'[r].err = NoErr
                 /\ \A r0 \in StoredPartial(KeyOf(req'[r])) :
                       req'[r].resp = req[r0].resp]_vars

\* an aggregated search whose one fetching child failed stored an empty
\* result; the same search, made after the child recovered and before the
\* hour was over, returned that result and asked no child
C28_Witness ==
    \E r0, r \in Reqs :
        /\ r0 # r
        /\ req[r0].pc = "done" /\ req[r0].puts = 1 /\ req[r0].providerID = AllID
        /\ ChildFailed(agg[r0])
        /\ req[r].pc = "done" /\ req[r].providerID = AllID
        /\ req[r].query = req[r0].query
        /\ req[r].hit /\ ~req[r].downAtHit /\ req[r].calls = 0 /\ agg[r] = NoAgg
        /\ req[r].resp = req[r0].resp
        /\ req[r].resp = Resp(EmptySlice)

----------------------------------------------------------------------------
(* the cache lock and the upstream fetch *)

\* goroutine t is inside Get, Put, EvictExpired or Len
InCacheOp(t) ==
    thr[t].pc \in {"read", "read2", "check", "len", "write", "write2", "limit", "sweep"}

\* every goroutine has returned
AllReturned == \A t \in DOMAIN thr : thr[t].pc = "done"

\* C29: SearchByProviderID never holds the cache lock while the adapter's
\* Search runs: the lock is held only inside Get, Put, EvictExpired and Len,
\* each of which releases it before it returns, so every cache operation of
\* another request or of the sweep made while an upstream fetch is in
\* flight completes without waiting for that fetch, and no interleaving of
\* requests and sweeps deadlocks.
C29_NoLockAcrossSearch ==
    /\ [](/\ mu.r = {t \in DOMAIN thr : thr[t].pc \in {"read", "read2", "check", "len"}}
          /\ mu.w <=> \E t \in DOMAIN thr : thr[t].pc \in {"write", "write2", "limit", "sweep"}
          /\ \A t \in DOMAIN thr : thr[t].pc = "search" => t \notin mu.r /\ ~InCacheOp(t)
          /\ (\E t \in DOMAIN thr : thr[t].pc = "search") /\ mu # NoLock
                => \E u \in DOMAIN thr : InCacheOp(u) /\ ENABLED <<LockStep>>_vars
          /\ AllReturned \/ ENABLED <<NextLock>>_vars)
    /\ \A t \in Threads :
          InCacheOp(t) ~> ~InCacheOp(t)

\* while the upstream fetch of one request was in flight, another request
\* stored its result under the same key and the sweep ran
C29_Witness ==
    \E t, u, v \in DOMAIN thr :
        /\ thr[t].pc = "search"
        /\ thr[u].op = "Put" /\ thr[u].pc = "done" /\ thr[u].key = thr[t].key
        /\ thr[u].seq > thr[t].seq
        /\ thr[v].op = "EvictExpired" /\ thr[v].pc = "done" /\ thr[v].seq > thr[t].seq
        /\ mu = NoLock

----------------------------------------------------------------------------
(* Put on a key that is present *)

\* the Puts on the key that returned
PutsOn(k) == {t \in DOMAIN thr : thr[t].op = "Put" /\ thr[t].pc = "done" /\ thr[t].key = k}

\* the hours at which a Get may look at an entry
Hours == 0..(MaxTime + 3)

\* C30: a Put on a key that is already present replaces both its records and
\* its expiry with those of the new Put and leaves the entry count
\* unchanged: afterwards Get returns the new records until the new expiry,
\* and the earlier expiry no longer applies.  When two requests that both
\* missed write the same key, the entry after both Puts is that of whichever
\* Put took the lock last.
C30_Overwrite ==
    [][\A t \in DOMAIN thr :
          (thr[t].op = "Put" /\ thr[t].pc = "limit" /\ thr'[t].pc = "done"
              /\ thr[t].key \in DOMAIN thr[t].snap)
          => LET k == thr[t].key
                 old == thr[t].snap
             IN  /\ DOMAIN entries' = DOMAIN old
                 /\ Cardinality(DOMAIN entries') = Cardinality(DOMAIN old)
                 /\ entries'[k].data = thr[t].data
                 /\ entries'[k].expiry = thr[t].at + thr[t].ttl
                 /\ \A j \in DOMAIN old \ {k} : entries'[j] = old[j]
                 /\ \A h \in Hours :
                       GetResult(entries', k, h) =
                           IF h < thr[t].at + thr[t].ttl
                           THEN [data |-> thr[t].data, found |-> TRUE]
                           ELSE [data |-> NilSlice, found |-> FALSE]
                 /\ \A u \in PutsOn(k) :
                       thr[u].seq < thr[t].seq /\ old[k].data = thr[u].data
                           => entries'[k] = [data |-> thr[t].data,
                                             expiry |-> thr[t].at + thr[t].ttl]]_vars

\* two goroutines looked the key up and missed, then two Puts wrote it with
\* different records and lifetimes: the entry is that of the Put that took
\* the lock last, and the expiry of the first no longer applies
C30_Witness ==
    \E g1, g2, p1, p2 \in DOMAIN thr :
        /\ g1 # g2
        /\ thr[g1].op = "Get" /\ thr[g1].pc = "done" /\ ~thr[g1].ret.found
        /\ thr[g2].op = "Get" /\ thr[g2].pc = "done" /\ ~thr[g2].ret.found
        /\ thr[g1].key = thr[p1].key /\ thr[g2].key = thr[p1].key
        /\ p1 \in PutsOn(thr[p1].key) /\ p2 \in PutsOn(thr[p1].key)
        /\ thr[g1].seq < thr[p1].seq /\ thr[g2].seq < thr[p1].seq
        /\ thr[p1].seq < thr[p2].seq
        /\ thr[p1].data # thr[p2].data
        /\ thr[p1].at + thr[p1].ttl # thr[p2].at + thr[p2].ttl
        /\ thr[p1].key \in DOMAIN entries
        /\ entries[thr[p1].key] = [data |-> thr[p2].data,
                                    expiry |-> thr[p2].at + thr[p2].ttl]
        /\ GetResult(entries, thr[p1].key, thr[p1].at + thr[p1].ttl).found

====
